---- MODULE Spec2Model ----
(***************************************************************************)
(* Robot-arm servo controller (zpreisler/robotarm): the servo command      *)
(* engine of src/firmware/commands.c on top of the PCA9685 channel driver  *)
(* of src/firmware/pca9685.c, the text protocol of src/firmware/serial.c,   *)
(* the receive ring of src/uart.c, and the keypad menus of                 *)
(* src/firmware/lcd_menu.c and src/lcd_menu.c.                             *)
(*                                                                         *)
(* C arrays are functions over 0..k-1.  Every write that reaches the       *)
(* channel driver during the running engine call is appended to hw, and    *)
(* every _delay_ms of the call as well, so that hw is the call's trace.    *)
(***************************************************************************)
EXTENDS Integers, Sequences, FiniteSets, TLC

(***************************************************************************)
(* Program constants                                                       *)
(***************************************************************************)
NUM_SERVOS == 6
PCA9685_CHANNELS == 16
PCA9685_DEFAULT_ADDRESS == 64
SERVO_MIN_PULSE == 500
SERVO_MAX_PULSE == 2500
MOVE_STEP_DELAY_MS == 20
ARRAY_SLOTS == 16
CMD_BUFFER_SIZE == 32
CMD_OK == 0
CMD_ERROR == 1
CMD_EXIT == 2
CMD_UNKNOWN == 3
CMD_INVALID_SERVO == 4
CMD_INVALID_ANGLE == 5
UART_RX_BUFFER_SIZE == 64
UART_RX_BUFFER_MASK == UART_RX_BUFFER_SIZE - 1
MENU_MOTORS == 0
MENU_CALIBRATION == 1
MENU_POSE == 2
MENU_MOVE == 3
NUM_MENU_OPTIONS == 4

(***************************************************************************)
(* Bounds of the model                                                     *)
(***************************************************************************)
\* engine calls per behaviour of Spec
MaxCalls == 2
\* engine calls per behaviour of SpecLong (the long sweeps)
MaxLongCalls == 2
MaxLines == 2
MaxArrivals == 66
MaxFlushes == 1
FlushWindow == 2
\* polls of the keypad that change an angle or a pulse or run POSE or MOVE,
\* plus the steps of 100 ms the staged duration is away from its initial value
MaxChanges == 2

U8 == 0..255

\* a C array given by its elements, index 0 first
Arr(s) == [i \in 0..(Len(s) - 1) |-> s[i + 1]]

(***************************************************************************)
(* Channel driver, src/firmware/pca9685.c                                  *)
(***************************************************************************)
\* one bus transaction of four register bytes, or nothing for a channel
\* the expander does not have
pca9685_set_pwm(address, channel, on, off) ==
    IF channel >= PCA9685_CHANNELS
    THEN <<>>
    ELSE << [ev |-> "pwm", address |-> address, channel |-> channel,
             on |-> on, off |-> off] >>

\* (uint32_t)pulse_us * 4096 / 20000, limited to 12 bits
PwmValue(pulse_us) ==
    LET pwm_value == (pulse_us * 4096) \div 20000
    IN IF pwm_value > 4095 THEN 4095 ELSE pwm_value

pca9685_set_servo_pwm_us(address, channel, pulse_us) ==
    LET evs == pca9685_set_pwm(address, channel, 0, PwmValue(pulse_us))
    IN [k \in 1..Len(evs) |-> evs[k] @@ [pulse_us |-> pulse_us, angle |-> -1]]

\* SERVO_MIN_PULSE + (uint32_t)angle * (SERVO_MAX_PULSE - SERVO_MIN_PULSE) / 180
AngleToPulse(angle) ==
    (SERVO_MIN_PULSE + ((angle * (SERVO_MAX_PULSE - SERVO_MIN_PULSE)) \div 180)) % 65536

pca9685_set_servo_angle(address, channel, angle) ==
    LET a == IF angle > 180 THEN 180 ELSE angle
        evs == pca9685_set_servo_pwm_us(address, channel, AngleToPulse(a))
    IN [k \in 1..Len(evs) |-> [evs[k] EXCEPT !.angle = a]]

(***************************************************************************)
(* Servo state and command engine, src/firmware/commands.c                 *)
(***************************************************************************)
VARIABLES
    servo_angles,        \* uint8_t servo_angles[16]
    servo_pulse_widths,  \* uint16_t servo_pulse_widths[16]
    hw,                  \* driver writes and delays of the running (or last) call
    reads,               \* indices of the caller's array read by that call
    pc,                  \* "idle", or the position inside cmd_execute_move
    mv,                  \* locals of the running cmd_execute_move
    call,                \* the running (or last) call, its arguments and pre-state
    calls,               \* number of engine calls made so far
    ser,                 \* the serial session: mode, and the line last handled
    tx,                  \* what was sent in reply to that line
    lines,               \* number of lines handled so far
    rx_buffer,           \* volatile uint8_t rx_buffer[64]
    rx_head,             \* volatile uint8_t rx_head
    rx_tail,             \* volatile uint8_t rx_tail
    main,                \* the main context: its position inside a uart call
    ring,                \* bytes arrived, accepted, dropped, returned so far
    menu,                \* the statics of lcd_menu.c, and which lcd_menu.c is linked
    press,               \* the last poll of the keypad
    check,               \* serial_check_start: its statics and the running call
    host                 \* the bytes the host has still to send

engine_vars == <<servo_angles, servo_pulse_widths, hw, reads, pc, mv, call, calls>>
serial_vars == <<ser, tx, lines>>
uart_vars == <<rx_buffer, rx_head, rx_tail, main, ring>>
menu_vars == <<menu, press>>
start_vars == <<check, host>>
vars == <<engine_vars, serial_vars, uart_vars, menu_vars, start_vars>>

Slots == 0..(ARRAY_SLOTS - 1)

\* the part of the engine state an operation works on
Engine == [angles |-> servo_angles, pulses |-> servo_pulse_widths,
           hw |-> <<>>, reads |-> {}]

\* if (angle > 180) angle = 180;
ClampAngleWraps(angle) == angle % 181
ClampAngle(angle) == IF angle > 180 THEN 180 ELSE angle

\* if (pulse_us > 20000) pulse_us = 20000;
ClampPulse(pulse_us) == IF pulse_us > 20000 THEN 20000 ELSE pulse_us

\* SERVO_MIN_PULSE + ((uint32_t)angle * (SERVO_MAX_PULSE - SERVO_MIN_PULSE) / 180)
PulseFromAngle(angle) ==
    (SERVO_MIN_PULSE + ((angle * (SERVO_MAX_PULSE - SERVO_MIN_PULSE)) \div 180)) % 65536

\* a set_angle that drives the servo but forgets the state update
SetAngleNoStore(e, channel, angle) ==
    IF channel >= NUM_SERVOS
    THEN e
    ELSE LET pulse_us == PulseFromAngle(ClampAngle(angle))
         IN [e EXCEPT !.pulses[channel] = pulse_us,
                      !.hw = @ \o pca9685_set_servo_pwm_us(
                                      PCA9685_DEFAULT_ADDRESS, channel, pulse_us)]

\* a set_angle guarded by the size of the arrays instead of NUM_SERVOS
SetAngleAnySlot(e, channel, angle) ==
    IF channel >= ARRAY_SLOTS
    THEN e
    ELSE LET a == ClampAngle(angle)
             pulse_us == PulseFromAngle(a)
         IN [e EXCEPT !.angles[channel] = a,
                      !.pulses[channel] = pulse_us,
                      !.hw = @ \o pca9685_set_servo_pwm_us(
                                      PCA9685_DEFAULT_ADDRESS, channel, pulse_us)]

cmd_set_servo_angle(e, channel, angle) ==
    IF channel >= NUM_SERVOS
    THEN e
    ELSE LET a == ClampAngle(angle)
             pulse_us == PulseFromAngle(a)
         IN [e EXCEPT !.angles[channel] = a,
                      !.pulses[channel] = pulse_us,
                      !.hw = @ \o pca9685_set_servo_pwm_us(
                                      PCA9685_DEFAULT_ADDRESS, channel, pulse_us)]

\* a calibration write that keeps angle and pulse coupled
SetPwmUsCoupled(e, channel, pulse_us) ==
    IF channel >= NUM_SERVOS
    THEN e
    ELSE LET p == ClampPulse(pulse_us)
             a == IF p <= SERVO_MIN_PULSE THEN 0
                  ELSE ClampAngle(((p - SERVO_MIN_PULSE) * 180)
                                      \div (SERVO_MAX_PULSE - SERVO_MIN_PULSE))
         IN [e EXCEPT !.angles[channel] = a,
                      !.pulses[channel] = p,
                      !.hw = @ \o pca9685_set_servo_pwm_us(
                                      PCA9685_DEFAULT_ADDRESS, channel, p)]

cmd_set_servo_pwm_us(e, channel, pulse_us) ==
    IF channel >= NUM_SERVOS
    THEN e
    ELSE LET p == ClampPulse(pulse_us)
         IN [e EXCEPT !.pulses[channel] = p,
                      !.hw = @ \o pca9685_set_servo_pwm_us(
                                      PCA9685_DEFAULT_ADDRESS, channel, p)]

\* reads of a given angle array, and of the engine's own
GetAngleIn(angles, channel) == IF channel >= NUM_SERVOS THEN 90 ELSE angles[channel]
cmd_get_servo_angle(channel) == GetAngleIn(servo_angles, channel)

GetPwmUsIn(pulses, channel) == IF channel >= NUM_SERVOS THEN 1500 ELSE pulses[channel]
cmd_get_servo_pwm_us(channel) == GetPwmUsIn(servo_pulse_widths, channel)

\* if (num_servos > NUM_SERVOS) num_servos = NUM_SERVOS;
ClampCountMissing(num_servos) == num_servos
ClampCount(num_servos) == IF num_servos > NUM_SERVOS THEN NUM_SERVOS ELSE num_servos

\* for (i = 0; i < num_servos; i++) cmd_set_servo_angle(i, angles[i]);
RECURSIVE PoseLoop(_, _, _, _)
PoseLoop(e, angles, i, num_servos) ==
    IF i < num_servos
    THEN PoseLoop(cmd_set_servo_angle([e EXCEPT !.reads = @ \cup {i}], i, angles[i]),
                  angles, (i + 1) % 256, num_servos)
    ELSE e

cmd_execute_pose(e, angles, num_servos) ==
    PoseLoop(e, angles, 0, ClampCount(num_servos))

\* cmd_init: every used channel to the centre, one driver write each
RECURSIVE InitLoop(_, _)
InitLoop(e, i) ==
    IF i < NUM_SERVOS
    THEN InitLoop([e EXCEPT !.angles[i] = 90,
                            !.pulses[i] = 1500,
                            !.hw = @ \o pca9685_set_servo_pwm_us(
                                            PCA9685_DEFAULT_ADDRESS, i, 1500)],
                  (i + 1) % 256)
    ELSE e

cmd_init ==
    InitLoop([angles |-> [i \in Slots |-> 0], pulses |-> [i \in Slots |-> 0],
              hw |-> <<>>, reads |-> {}], 0)

(***************************************************************************)
(* cmd_execute_move, src/firmware/commands.c:104-155                       *)
(***************************************************************************)
\* C's integer division truncates toward zero
TruncDiv(a, b) == IF a >= 0 THEN a \div b ELSE -((-a) \div b)

\* num_steps = duration_ms / MOVE_STEP_DELAY_MS; if (num_steps == 0) num_steps = 1;
NumStepsOneMore(duration_ms) == (duration_ms \div MOVE_STEP_DELAY_MS) + 1
\* a step count rounded up instead of down
NumStepsRoundedUp(duration_ms) ==
    LET num_steps == (duration_ms + MOVE_STEP_DELAY_MS - 1) \div MOVE_STEP_DELAY_MS
    IN IF num_steps = 0 THEN 1 ELSE num_steps

NumSteps(duration_ms) ==
    LET num_steps == duration_ms \div MOVE_STEP_DELAY_MS
    IN IF num_steps = 0 THEN 1 ELSE num_steps

\* for (...; step <= num_steps; ...)
MoveLoopCondExclusive(step, num_steps) == step < num_steps
MoveLoopCond(step, num_steps) == step <= num_steps

\* if (step < num_steps) _delay_ms(MOVE_STEP_DELAY_MS);
MoveDelayCondAlways(step, num_steps) == TRUE
MoveDelayCond(step, num_steps) == step < num_steps

\* uint16_t factor = (step * 1000UL) / num_steps;  a 16-bit step times 1000
\* stays below 2^32, so only the store into the uint16_t can lose bits
\* the product taken in 16 bits, as step * 1000 without the UL suffix would be
FactorNarrow(step, num_steps) == ((step * 1000) % 65536) \div num_steps

Factor(step, num_steps) == ((step * 1000) \div num_steps) % 65536

\* start + delta * factor / 1000, clamped to 0..180, as the uint8_t sent
NewAngle(start, delta, factor) ==
    LET new_angle == start + TruncDiv(delta * factor, 1000)
    IN IF new_angle < 0 THEN 0
       ELSE IF new_angle > 180 THEN 180 ELSE new_angle

\* the writes of one step issued from the last channel down to channel 0
RECURSIVE StepWritesDescending(_, _, _)
StepWritesDescending(m, factor, i) ==
    IF i < m.num_servos
    THEN StepWritesDescending(m, factor, (i + 1) % 256)
         \o pca9685_set_servo_angle(PCA9685_DEFAULT_ADDRESS, i,
                                    NewAngle(m.start_angles[i], m.deltas[i], factor))
    ELSE <<>>

\* the driver writes of one step, channel 0 first
RECURSIVE StepWrites(_, _, _)
StepWrites(m, factor, i) ==
    IF i < m.num_servos
    THEN pca9685_set_servo_angle(PCA9685_DEFAULT_ADDRESS, i,
                                 NewAngle(m.start_angles[i], m.deltas[i], factor))
         \o StepWrites(m, factor, (i + 1) % 256)
    ELSE <<>>

\* a final store of the last value sent instead of the target
MoveStoreLastSent(angles, target_angles, num_servos) ==
    [i \in Slots |-> IF i < num_servos THEN ClampAngle(target_angles[i]) ELSE angles[i]]

\* a final store that covers every servo whatever the count
MoveStoreAll(angles, target_angles, num_servos) ==
    [i \in Slots |-> IF i < NUM_SERVOS THEN target_angles[i] ELSE angles[i]]

\* for (i = 0; i < num_servos; i++) servo_angles[i] = target_angles[i];
MoveStore(angles, target_angles, num_servos) ==
    [i \in Slots |-> IF i < num_servos THEN target_angles[i] ELSE angles[i]]

NoMove == [duration_ms |-> 0, target_angles |-> <<>>, num_servos |-> 0,
           num_steps |-> 0, start_angles |-> <<>>, deltas |-> <<>>, step |-> 0]

NoArgs == [channel |-> 0, angle |-> 0, pulse_us |-> 0, duration_ms |-> 0,
           angles |-> <<>>, num_servos |-> 0]

\* the record of a call: its arguments and the state it started from
Called(op, args) ==
    [op |-> op, channel |-> args.channel, angle |-> args.angle,
     pulse_us |-> args.pulse_us, duration_ms |-> args.duration_ms,
     angles |-> args.angles, num_servos |-> args.num_servos,
     pre_angles |-> servo_angles, pre_pulses |-> servo_pulse_widths,
     pwm_used |-> call.pwm_used \/ op = "set_pwm_us"]

\* the statics of lcd_menu.c before lcd_menu_init: temp_angles of
\* firmware/lcd_menu.c; servo_angles and servo_pwm_values of src/lcd_menu.c
MenuStatics ==
    [build |-> "none", current_state |-> "STATE_MENU", menu_selection |-> 0,
     selected_servo |-> 0, move_duration |-> 1000,
     temp_angles |-> [i \in Slots |-> 0],
     servo_angles |-> [i \in 0..(NUM_SERVOS - 1) |-> 90],
     servo_pwm_values |-> [i \in 0..(NUM_SERVOS - 1) |-> 307]]

Init ==
    /\ servo_angles = cmd_init.angles
    /\ servo_pulse_widths = cmd_init.pulses
    /\ hw = cmd_init.hw
    /\ reads = {}
    /\ pc = "idle"
    /\ mv = NoMove
    /\ call = [op |-> "init", channel |-> 0, angle |-> 0, pulse_us |-> 0,
               duration_ms |-> 0, angles |-> <<>>, num_servos |-> 0,
               pre_angles |-> [i \in Slots |-> 0],
               pre_pulses |-> [i \in Slots |-> 0], pwm_used |-> FALSE]
    /\ calls = 0
    /\ ser = [mode |-> "button", op |-> "none", line |-> <<>>, result |-> 0,
              busy |-> FALSE, prev |-> [op |-> "none", line |-> <<>>, tx |-> <<>>],
              pre_angles |-> [i \in Slots |-> 0],
              pre_pulses |-> [i \in Slots |-> 0]]
    /\ tx = <<>>
    /\ lines = 0
    /\ rx_buffer = [i \in 0..(UART_RX_BUFFER_SIZE - 1) |-> 0]
    /\ rx_head = 0
    /\ rx_tail = 0
    /\ main = [pc |-> "main", head |-> 0, data |-> 0]
    /\ ring = [arrived |-> 0, stored |-> <<>>, kept |-> <<>>, dropped |-> 0,
               got |-> <<>>, flushes |-> 0, mark |-> 0,
               last |-> [by |-> "none", head |-> 0, tail |-> 0,
                         buffer |-> [i \in 0..(UART_RX_BUFFER_SIZE - 1) |-> 0]]]
    /\ menu = MenuStatics
    /\ press = [button |-> "none", held |-> [i \in 0..(NUM_SERVOS - 1) |-> 90],
                busy |-> FALSE, edits |-> 0, runs |-> 0]
    /\ check = [build |-> "none", pc |-> "idle", buffer |-> <<>>, result |-> 0,
                completed |-> <<>>, returned |-> FALSE]
    /\ host = <<>>

\* cmd_execute_move is a loop of writes and _delay_ms(20) that returns to its
\* caller only after the last step: the main context goes on when the engine
\* is not inside that loop and neither caller is waiting for it to return
CallerFreeAlways == TRUE
CallerFree == pc = "idle" /\ ~press.busy /\ ~ser.busy

\* an engine operation that runs to completion: the state it leaves
Returned(e) ==
    /\ servo_angles' = e.angles
    /\ servo_pulse_widths' = e.pulses
    /\ hw' = e.hw
    /\ reads' = e.reads
    /\ pc' = "idle"
    /\ mv' = NoMove
    /\ calls' = calls + 1

SetServoAngle(channel, angle) ==
    /\ pc = "idle"
    /\ call' = Called("set_angle", [NoArgs EXCEPT !.channel = channel, !.angle = angle])
    /\ Returned(cmd_set_servo_angle(Engine, channel, angle))

SetServoPwmUs(channel, pulse_us) ==
    /\ pc = "idle"
    /\ call' = Called("set_pwm_us",
                      [NoArgs EXCEPT !.channel = channel, !.pulse_us = pulse_us])
    /\ Returned(cmd_set_servo_pwm_us(Engine, channel, pulse_us))

ExecutePose(angles, num_servos) ==
    /\ pc = "idle"
    /\ call' = Called("pose", [NoArgs EXCEPT !.angles = angles,
                                             !.num_servos = num_servos])
    /\ Returned(cmd_execute_pose(Engine, angles, num_servos))

\* lines 104-124: clamp the count, derive the step count, snapshot start and delta
MoveBegin(duration_ms, target_angles, num_servos) ==
    /\ pc = "idle"
    /\ call' = Called("move", [NoArgs EXCEPT !.duration_ms = duration_ms,
                                             !.angles = target_angles,
                                             !.num_servos = num_servos])
    /\ LET n == ClampCount(num_servos)
           num_steps == NumSteps(duration_ms)
       IN /\ mv' = [duration_ms |-> duration_ms,
                    target_angles |-> target_angles,
                    num_servos |-> n,
                    num_steps |-> num_steps,
                    start_angles |-> [i \in 0..(n - 1) |-> servo_angles[i]],
                    deltas |-> [i \in 0..(n - 1) |->
                                   target_angles[i] - servo_angles[i]],
                    step |-> 0]
          /\ reads' = 0..(n - 1)
          /\ pc' = IF MoveLoopCond(0, num_steps) THEN "move_step" ELSE "move_store"
    /\ hw' = <<>>
    /\ calls' = calls + 1
    /\ UNCHANGED <<servo_angles, servo_pulse_widths>>

\* lines 127-143: the writes of one step; the step ends here when no delay follows
MoveStep ==
    /\ pc = "move_step"
    /\ hw' = hw \o StepWrites(mv, Factor(mv.step, mv.num_steps), 0)
    /\ IF MoveDelayCond(mv.step, mv.num_steps)
       THEN /\ pc' = "move_delay"
            /\ mv' = mv
       ELSE LET next == (mv.step + 1) % 65536
            IN /\ mv' = [mv EXCEPT !.step = next]
               /\ pc' = IF MoveLoopCond(next, mv.num_steps)
                        THEN "move_step" ELSE "move_store"
    /\ UNCHANGED <<servo_angles, servo_pulse_widths, reads, call, calls>>

\* lines 146-148: the 20 ms between two steps
MoveDelay ==
    /\ pc = "move_delay"
    /\ hw' = Append(hw, [ev |-> "delay", ms |-> MOVE_STEP_DELAY_MS])
    /\ LET next == (mv.step + 1) % 65536
       IN /\ mv' = [mv EXCEPT !.step = next]
          /\ pc' = IF MoveLoopCond(next, mv.num_steps)
                   THEN "move_step" ELSE "move_store"
    /\ UNCHANGED <<servo_angles, servo_pulse_widths, reads, call, calls>>

\* lines 151-155: the stored angles become the targets, and the call returns
MoveEnd ==
    /\ pc = "move_store"
    /\ servo_angles' = MoveStore(servo_angles, mv.target_angles, mv.num_servos)
    /\ pc' = "idle"
    /\ mv' = NoMove
    /\ UNCHANGED <<servo_pulse_widths, hw, reads, call, calls>>

(***************************************************************************)
(* The callers of the engine: arguments of every width the parameters      *)
(* allow, drawn from the values around each limit of the code              *)
(***************************************************************************)
ChannelInputs == {0, 3, 5, 6, 16, 255}
AngleInputs == {0, 1, 45, 179, 180, 181, 200, 255}
PulseInputs == {0, 499, 1500, 2501, 20000, 20001, 65535}
CountInputs == {0, 1, 2, 6, 7, 8}
ArrayInputs == {Arr(<<0, 45, 135, 180, 181, 255, 7, 9>>),
                Arr(<<180, 100, 0, 200, 10, 170, 3, 4>>)}
DurationInputs == {0, 19, 20, 65}
LongDurationInputs == {1000, 2000}
LongCountInputs == {1, 2, 7}

Next ==
    \/ \E c \in ChannelInputs, a \in AngleInputs :
          calls < MaxCalls /\ SetServoAngle(c, a)
                           /\ UNCHANGED <<serial_vars, uart_vars, menu_vars, start_vars>>
    \/ \E c \in ChannelInputs, p \in PulseInputs :
          calls < MaxCalls /\ SetServoPwmUs(c, p)
                           /\ UNCHANGED <<serial_vars, uart_vars, menu_vars, start_vars>>
    \/ \E t \in ArrayInputs, n \in CountInputs :
          calls < MaxCalls /\ ExecutePose(t, n)
                           /\ UNCHANGED <<serial_vars, uart_vars, menu_vars, start_vars>>
    \/ \E d \in DurationInputs, t \in ArrayInputs, n \in CountInputs :
          calls < MaxCalls /\ MoveBegin(d, t, n)
                           /\ UNCHANGED <<serial_vars, uart_vars, menu_vars, start_vars>>
    \/ MoveStep /\ UNCHANGED <<serial_vars, uart_vars, menu_vars, start_vars>>
    \/ MoveDelay /\ UNCHANGED <<serial_vars, uart_vars, menu_vars, start_vars>>
    \/ MoveEnd /\ UNCHANGED <<serial_vars, uart_vars, menu_vars, start_vars>>

Spec == Init /\ [][Next]_vars

\* the long sweeps: cmd_execute_move alone, for whole seconds
NextLong ==
    \/ \E d \in LongDurationInputs, t \in ArrayInputs, n \in LongCountInputs :
          calls < MaxLongCalls /\ MoveBegin(d, t, n)
                               /\ UNCHANGED <<serial_vars, uart_vars, menu_vars, start_vars>>
    \/ MoveStep /\ UNCHANGED <<serial_vars, uart_vars, menu_vars, start_vars>>
    \/ MoveDelay /\ UNCHANGED <<serial_vars, uart_vars, menu_vars, start_vars>>
    \/ MoveEnd /\ UNCHANGED <<serial_vars, uart_vars, menu_vars, start_vars>>

SpecLong == Init /\ [][NextLong]_vars

(***************************************************************************)
(* firmware/serial.c: the text protocol.  A command line is a C string,    *)
(* modelled as the sequence of its character codes; a pointer into it is   *)
(* the 0-based index of the character it points at                         *)
(***************************************************************************)
\* the printable characters, code 32 first
Chars == <<" ", "!", "dquote", "#", "$", "%", "&", "'", "(", ")", "*", "+", ",",
           "-", ".", "/", "0", "1", "2", "3", "4", "5", "6", "7", "8", "9",
           ":", ";", "<", "=", ">", "?", "@", "A", "B", "C", "D", "E", "F",
           "G", "H", "I", "J", "K", "L", "M", "N", "O", "P", "Q", "R", "S",
           "T", "U", "V", "W", "X", "Y", "Z", "[", "backslash", "]", "^", "_", "backtick",
           "a", "b", "c", "d", "e", "f", "g", "h", "i", "j", "k", "l", "m",
           "n", "o", "p", "q", "r", "s", "t", "u", "v", "w", "x", "y", "z",
           "{", "|", "}", "~">>

\* the code of a character literal
OrdTable == [c \in {Chars[i] : i \in 1..Len(Chars)} |->
                31 + (CHOOSE i \in 1..Len(Chars) : Chars[i] = c)]
Ord(c) == OrdTable[c]

\* the C string with these characters
Str(cs) == [i \in 1..Len(cs) |-> Ord(cs[i])]

\* s[i] of a C string: the terminating NUL at its end
At(s, i) == IF i < Len(s) THEN s[i + 1] ELSE 0

\* strcmp(cmd, lit) == 0
StrEq(cmd, lit) == cmd = lit

\* strncmp(cmd, lit, n) == 0, for a literal of exactly n characters
StrNEq(cmd, lit, n) == \A i \in 0..(n - 1) : At(cmd, i) = At(lit, i)

\* strchr(cmd, c): the index of the first c, or -1 for NULL
StrChr(cmd, c) ==
    IF \E i \in 0..(Len(cmd) - 1) : At(cmd, i) = c
    THEN CHOOSE i \in 0..(Len(cmd) - 1) :
             At(cmd, i) = c /\ \A j \in 0..(i - 1) : At(cmd, j) # c
    ELSE -1

\* the literals process_command and serial_check_start compare a line with
STOP_UPPER == Str(<<"S", "T", "O", "P">>)
STOP_LOWER == Str(<<"s", "t", "o", "p">>)
HELP_UPPER == Str(<<"H", "E", "L", "P">>)
HELP_LOWER == Str(<<"h", "e", "l", "p">>)
GET_UPPER == Str(<<"G", "E", "T", " ">>)
GET_LOWER == Str(<<"g", "e", "t", " ">>)
POSE_UPPER == Str(<<"P", "O", "S", "E", " ">>)
POSE_LOWER == Str(<<"p", "o", "s", "e", " ">>)
MOVE_UPPER == Str(<<"M", "O", "V", "E", " ">>)
MOVE_LOWER == Str(<<"m", "o", "v", "e", " ">>)
START_UPPER == Str(<<"S", "T", "A", "R", "T">>)
START_LOWER == Str(<<"s", "t", "a", "r", "t">>)

IsDigit(c) == c >= Ord("0") /\ c <= Ord("9")

parse_hex_digit(c) ==
    IF c >= Ord("0") /\ c <= Ord("9") THEN c - Ord("0")
    ELSE IF c >= Ord("A") /\ c <= Ord("F") THEN c - Ord("A") + 10
    ELSE IF c >= Ord("a") /\ c <= Ord("f") THEN c - Ord("a") + 10
    ELSE 255

value_to_hex(value) ==
    IF value < 10 THEN Ord("0") + value ELSE Ord("A") + (value - 10)

\* the pointer after the spaces and tabs at p (a line holds no tab: the
\* reader stores printable characters only)
RECURSIVE skip_whitespace(_, _)
skip_whitespace(s, p) ==
    IF At(s, p) = Ord(" ") \/ At(s, p) = 9 THEN skip_whitespace(s, p + 1) ELSE p

\* *result = *result * 10 + digit, in a uint16_t
Accumulate(result, digit) == (result * 10 + digit) % 65536

RECURSIVE DigitLoop(_, _, _)
DigitLoop(s, p, result) ==
    IF IsDigit(At(s, p))
    THEN DigitLoop(s, p + 1, Accumulate(result, At(s, p) - Ord("0")))
    ELSE [ok |-> 1, value |-> result, p |-> p]

parse_uint16(s, p) ==
    IF At(s, p) < Ord("0") \/ At(s, p) > Ord("9")
    THEN [ok |-> 0, value |-> 0, p |-> p]
    ELSE DigitLoop(s, p, 0)

skip_comma(s, p) ==
    LET q == skip_whitespace(s, p)
    IN IF At(s, q) = Ord(",") THEN [ok |-> 1, p |-> q + 1]
       ELSE IF At(s, q) = 0 THEN [ok |-> 1, p |-> q]
       ELSE [ok |-> 0, p |-> q]

\* while (**p != 0 && count < max_count)
ListLoopCond(s, p, count, max_count) == At(s, p) # 0 /\ count < max_count

\* the loop of parse_angle_list from the state (p, angles, count); the
\* result is the returned count, the array filled so far and the pointer
RECURSIVE ListLoop(_, _, _, _, _)
ListLoop(s, p, angles, count, max_count) ==
    IF ~ListLoopCond(s, p, count, max_count)
    THEN [count |-> count, angles |-> angles, p |-> p]
    ELSE LET q == skip_whitespace(s, p)
             n == parse_uint16(s, q)
             c == skip_comma(s, n.p)
         IN IF At(s, q) = 0 THEN [count |-> count, angles |-> angles, p |-> q]
            ELSE IF n.ok = 0 THEN [count |-> 0, angles |-> angles, p |-> n.p]
            ELSE IF n.value > 180 THEN [count |-> 0, angles |-> angles, p |-> n.p]
            ELSE IF c.ok = 0
                 THEN [count |-> 0, angles |-> angles @@ (count :> n.value),
                       p |-> c.p]
            ELSE ListLoop(s, c.p, angles @@ (count :> n.value), count + 1,
                          max_count)

parse_angle_list(s, p, max_count) == ListLoop(s, p, <<>>, 0, max_count)

\* what the handlers send: uart_puts of a literal, uart_putc of a character
Puts(s) == [fn |-> "puts", s |-> s, c |-> 0]
Putc(c) == [fn |-> "putc", s |-> "", c |-> c]
\* serial_send_help: the fixed help text
serial_send_help == <<Puts("HELP TEXT")>>

\* the outcome of a handler: the engine it leaves, its return code, what it
\* sent, and the cmd_execute_move call it makes (run step by step afterwards)
NoCall == [called |-> FALSE, duration_ms |-> 0, angles |-> <<>>, num_servos |-> 0]
Outcome(e, result, sent) == [e |-> e, result |-> result, tx |-> sent, move |-> NoCall]

\* a handler that applies the value before it validates it
ServoCommandAppliesFirst(e, cmd) ==
    LET channel == parse_hex_digit(At(cmd, 1))
        colon == StrChr(cmd, Ord(":"))
        n == parse_uint16(cmd, colon + 1)
    IN IF Len(cmd) < 4 THEN Outcome(e, CMD_ERROR, <<>>)
       ELSE IF channel = 255 \/ channel >= NUM_SERVOS
            THEN Outcome(e, CMD_INVALID_SERVO, <<>>)
       ELSE IF colon = -1 THEN Outcome(e, CMD_ERROR, <<>>)
       ELSE IF n.ok = 0 THEN Outcome(e, CMD_INVALID_ANGLE, <<>>)
       ELSE Outcome(cmd_set_servo_angle(e, channel, n.value % 256),
                    IF n.value > 180 THEN CMD_INVALID_ANGLE ELSE CMD_OK, <<>>)

execute_servo_command(e, cmd) ==
    LET channel == parse_hex_digit(At(cmd, 1))
        colon == StrChr(cmd, Ord(":"))
        n == parse_uint16(cmd, colon + 1)
    IN IF Len(cmd) < 4 THEN Outcome(e, CMD_ERROR, <<>>)
       ELSE IF At(cmd, 0) # Ord("S") /\ At(cmd, 0) # Ord("s")
            THEN Outcome(e, CMD_UNKNOWN, <<>>)
       ELSE IF channel = 255 \/ channel >= NUM_SERVOS
            THEN Outcome(e, CMD_INVALID_SERVO, <<>>)
       ELSE IF colon = -1 THEN Outcome(e, CMD_ERROR, <<>>)
       ELSE IF n.ok = 0 \/ n.value > 180
            THEN Outcome(e, CMD_INVALID_ANGLE, <<>>)
       ELSE Outcome(cmd_set_servo_angle(e, channel, n.value % 256), CMD_OK, <<>>)

execute_pwm_command(e, cmd) ==
    LET channel == parse_hex_digit(At(cmd, 1))
        colon == StrChr(cmd, Ord(":"))
        n == parse_uint16(cmd, colon + 1)
    IN IF Len(cmd) < 4 THEN Outcome(e, CMD_ERROR, <<>>)
       ELSE IF At(cmd, 0) # Ord("P") /\ At(cmd, 0) # Ord("p")
            THEN Outcome(e, CMD_UNKNOWN, <<>>)
       ELSE IF channel = 255 \/ channel >= NUM_SERVOS
            THEN Outcome(e, CMD_INVALID_SERVO, <<>>)
       ELSE IF colon = -1 THEN Outcome(e, CMD_ERROR, <<>>)
       ELSE IF n.ok = 0 \/ n.value > 20000
            THEN Outcome(e, CMD_INVALID_ANGLE, <<>>)
       ELSE Outcome(cmd_set_servo_pwm_us(e, channel, n.value), CMD_OK, <<>>)

\* the digits execute_get_command sends for an angle
AngleDigitsPadded(angle) ==
    <<Putc((angle \div 100) + Ord("0")), Putc(((angle \div 10) % 10) + Ord("0")),
      Putc((angle % 10) + Ord("0"))>>
AngleDigits(angle) ==
    (IF angle >= 100 THEN <<Putc((angle \div 100) + Ord("0"))>> ELSE <<>>)
    \o (IF angle >= 10 THEN <<Putc(((angle \div 10) % 10) + Ord("0"))>> ELSE <<>>)
    \o <<Putc((angle % 10) + Ord("0"))>>

execute_get_command(e, cmd) ==
    LET channel == parse_hex_digit(At(cmd, 4))
    IN IF Len(cmd) < 5 THEN Outcome(e, CMD_ERROR, <<>>)
       ELSE IF channel = 255 \/ channel >= NUM_SERVOS
            THEN Outcome(e, CMD_INVALID_SERVO, <<>>)
       ELSE Outcome(e, CMD_OK,
                    <<Puts("SERVO "), Putc(value_to_hex(channel)), Puts(": ")>>
                    \o AngleDigits(GetAngleIn(e.angles, channel))
                    \o <<Puts(" degrees\n")>>)

execute_pose_command(e, cmd) ==
    LET list == parse_angle_list(cmd, 5, NUM_SERVOS)
    IN IF Len(cmd) < 6 THEN Outcome(e, CMD_ERROR, <<>>)
       ELSE IF list.count = 0 THEN Outcome(e, CMD_ERROR, <<>>)
       ELSE Outcome(cmd_execute_pose(e, list.angles, list.count), CMD_OK, <<>>)

execute_move_command(e, cmd) ==
    LET d == parse_uint16(cmd, skip_whitespace(cmd, 5))
        list == parse_angle_list(cmd, skip_whitespace(cmd, d.p), NUM_SERVOS)
    IN IF Len(cmd) < 7 THEN Outcome(e, CMD_ERROR, <<>>)
       ELSE IF d.ok = 0 THEN Outcome(e, CMD_ERROR, <<>>)
       ELSE IF list.count = 0 THEN Outcome(e, CMD_ERROR, <<>>)
       ELSE [e |-> e, result |-> CMD_OK, tx |-> <<>>,
             move |-> [called |-> TRUE, duration_ms |-> d.value,
                       angles |-> list.angles, num_servos |-> list.count]]

\* the reply process_command sends for the code a handler returned
PoseReply(result, format_error) ==
    IF result = CMD_OK THEN <<Puts("OK\n")>>
    ELSE IF result = CMD_INVALID_SERVO
         THEN <<Puts("ERROR: Too many servos (max "),
                Putc(value_to_hex(NUM_SERVOS - 1)), Puts(")\n")>>
    ELSE IF result = CMD_INVALID_ANGLE
         THEN <<Puts("ERROR: Invalid angle (must be 0-180)\n")>>
    ELSE <<Puts(format_error)>>

ChannelReply(result, value_error) ==
    IF result = CMD_OK THEN <<Puts("OK\n")>>
    ELSE IF result = CMD_INVALID_SERVO
         THEN <<Puts("ERROR: Invalid servo (must be 0-"),
                Putc(value_to_hex(NUM_SERVOS - 1)), Puts(" hex)\n")>>
    ELSE IF result = CMD_INVALID_ANGLE THEN <<Puts(value_error)>>
    ELSE <<Puts("ERROR: Invalid command format\n")>>

\* the branch of process_command that takes the line
Route(cmd) ==
    IF Len(cmd) = 0 THEN "empty"
    ELSE IF StrEq(cmd, STOP_UPPER)
            \/ StrEq(cmd, STOP_LOWER) THEN "stop"
    ELSE IF StrEq(cmd, HELP_UPPER)
            \/ StrEq(cmd, HELP_LOWER) THEN "help"
    ELSE IF StrNEq(cmd, GET_UPPER, 4)
            \/ StrNEq(cmd, GET_LOWER, 4) THEN "get"
    ELSE IF StrNEq(cmd, POSE_UPPER, 5)
            \/ StrNEq(cmd, POSE_LOWER, 5) THEN "pose"
    ELSE IF StrNEq(cmd, MOVE_UPPER, 5)
            \/ StrNEq(cmd, MOVE_LOWER, 5) THEN "move"
    ELSE IF At(cmd, 0) = Ord("S") \/ At(cmd, 0) = Ord("s") THEN "servo"
    ELSE IF At(cmd, 0) = Ord("P") \/ At(cmd, 0) = Ord("p") THEN "pwm"
    ELSE "unknown"

\* the branch the process_command of serial_commands.c takes: it has no P
\* command and compares the S prefix before GET, POSE and MOVE
RouteOld(cmd) ==
    IF Len(cmd) = 0 THEN "empty"
    ELSE IF StrEq(cmd, STOP_UPPER)
            \/ StrEq(cmd, STOP_LOWER) THEN "stop"
    ELSE IF StrEq(cmd, HELP_UPPER)
            \/ StrEq(cmd, HELP_LOWER) THEN "help"
    ELSE IF At(cmd, 0) = Ord("S") \/ At(cmd, 0) = Ord("s") THEN "servo"
    ELSE IF StrNEq(cmd, GET_UPPER, 4)
            \/ StrNEq(cmd, GET_LOWER, 4) THEN "get"
    ELSE IF StrNEq(cmd, POSE_UPPER, 5)
            \/ StrNEq(cmd, POSE_LOWER, 5) THEN "pose"
    ELSE IF StrNEq(cmd, MOVE_UPPER, 5)
            \/ StrNEq(cmd, MOVE_LOWER, 5) THEN "move"
    ELSE "unknown"

\* what process_command sends once the handler of a MOVE line has returned
MoveReplyOf(result) == PoseReply(result, "ERROR: Invalid MOVE format\n")

\* process_command: the handler's outcome with the reply appended and the
\* code process_command itself returns; the reply of a MOVE line that calls
\* cmd_execute_move is sent when that call has returned
process_command(e, cmd) ==
    LET route == Route(cmd)
        get == execute_get_command(e, cmd)
        pose == execute_pose_command(e, cmd)
        move == execute_move_command(e, cmd)
        servo == execute_servo_command(e, cmd)
        pwm == execute_pwm_command(e, cmd)
    IN IF route = "empty" THEN Outcome(e, CMD_OK, <<>>)
       ELSE IF route = "stop" THEN Outcome(e, CMD_EXIT, <<>>)
       ELSE IF route = "help" THEN Outcome(e, CMD_OK, serial_send_help)
       ELSE IF route = "get"
            THEN Outcome(e, CMD_OK,
                         get.tx \o (IF get.result # CMD_OK
                                    THEN <<Puts("ERROR: Invalid GET command\n")>>
                                    ELSE <<>>))
       ELSE IF route = "pose"
            THEN Outcome(pose.e, CMD_OK,
                         PoseReply(pose.result, "ERROR: Invalid POSE format\n"))
       ELSE IF route = "move"
            THEN [e |-> move.e, result |-> CMD_OK,
                  tx |-> IF move.move.called THEN <<>>
                         ELSE MoveReplyOf(move.result),
                  move |-> move.move]
       ELSE IF route = "servo"
            THEN Outcome(servo.e, CMD_OK,
                         ChannelReply(servo.result,
                                      "ERROR: Invalid angle (must be 0-180)\n"))
       ELSE IF route = "pwm"
            THEN Outcome(pwm.e, CMD_OK,
                         ChannelReply(pwm.result,
                             "ERROR: Invalid pulse width (must be 0-20000us)\n"))
       ELSE Outcome(e, CMD_OK,
                    <<Puts("ERROR: Unknown command (type HELP for list)\n")>>)

(***************************************************************************)
(* The serial session.  A step handles one complete line: the content of   *)
(* the line buffer when a newline arrives (non-empty, printable, at most   *)
(* CMD_BUFFER_SIZE - 1 characters)                                         *)
(***************************************************************************)
Handled(mode, op, line, result, busy) ==
    [mode |-> mode, op |-> op, line |-> line, result |-> result, busy |-> busy,
     prev |-> [op |-> ser.op, line |-> ser.line, tx |-> tx],
     pre_angles |-> servo_angles, pre_pulses |-> servo_pulse_widths]

\* the outcome of serial_check_start for a line received in button mode
serial_check_start(line) ==
    IF StrEq(line, START_UPPER)
       \/ StrEq(line, START_LOWER)
    THEN [result |-> 1, tx |-> <<>>]
    ELSE IF StrEq(line, HELP_UPPER)
            \/ StrEq(line, HELP_LOWER)
    THEN [result |-> 0,
          tx |-> serial_send_help
                 \o <<Puts("\nType START to enter serial mode\n")>>]
    ELSE [result |-> 0, tx |-> <<Puts("Type START to enter serial mode\n")>>]

CheckStart(line) ==
    /\ ser.mode = "button"
    /\ pc = "idle"
    /\ LET r == serial_check_start(line)
       IN /\ ser' = Handled("button", "check_start", line, r.result, FALSE)
          /\ tx' = r.tx
    /\ UNCHANGED <<engine_vars, lines>>

\* serial_mode is entered once serial_check_start has returned 1
EnterSerialMode ==
    /\ ser.mode = "button"
    /\ ser.op = "check_start"
    /\ ser.result = 1
    /\ ser' = Handled("serial", "enter", <<>>, 0, FALSE)
    /\ tx' = <<Puts("OK\n")>>
    /\ UNCHANGED <<engine_vars, lines>>

\* one turn of the loop of serial_mode for a line whose handler returns at
\* once; on CMD_EXIT the loop ends and serial_mode sends its closing OK
Dispatch(line) ==
    /\ ser.mode = "serial"
    /\ CallerFree
    /\ LET r == process_command(Engine, line)
       IN /\ ~r.move.called
          /\ servo_angles' = r.e.angles
          /\ servo_pulse_widths' = r.e.pulses
          /\ hw' = r.e.hw
          /\ reads' = r.e.reads
          /\ tx' = r.tx \o (IF r.result = CMD_EXIT THEN <<Puts("OK\n")>> ELSE <<>>)
          /\ ser' = Handled(IF r.result = CMD_EXIT THEN "button" ELSE "serial",
                            "dispatch", line, r.result, FALSE)
    /\ lines' = lines + 1
    /\ UNCHANGED <<pc, mv, call, calls>>

\* a MOVE line that parses: process_command is inside cmd_execute_move
DispatchMove(line) ==
    /\ ser.mode = "serial"
    /\ ~ser.busy
    /\ pc = "idle"
    /\ Route(line) = "move"
    /\ LET r == process_command(Engine, line)
       IN /\ r.move.called
          /\ MoveBegin(r.move.duration_ms, r.move.angles, r.move.num_servos)
          /\ ser' = Handled("serial", "dispatch", line, r.result, TRUE)
    /\ tx' = <<>>
    /\ lines' = lines + 1

\* cmd_execute_move has returned: process_command sends the reply
MoveReply ==
    /\ ser.busy
    /\ pc = "idle"
    /\ tx' = tx \o MoveReplyOf(CMD_OK)
    /\ ser' = [ser EXCEPT !.busy = FALSE]
    /\ UNCHANGED <<engine_vars, lines>>

(***************************************************************************)
(* The lines a host sends                                                  *)
(***************************************************************************)
\* the decimal numeral of n, as a host writes it
RECURSIVE Decimal(_)
Decimal(n) ==
    IF n < 10 THEN <<Ord("0") + n>>
    ELSE Decimal(n \div 10) \o <<Ord("0") + (n % 10)>>

SLine(c, a) == Str(<<"S">>) \o <<value_to_hex(c)>> \o Str(<<":">>) \o Decimal(a)
GetLine(c) == GET_UPPER \o <<value_to_hex(c)>>

SetChannels == {0, 5}
SetAngles == {0, 9, 10, 99, 100, 180}
ServoLines == {SLine(c, a) : c \in SetChannels, a \in SetAngles}
GetLines == {GetLine(c) : c \in SetChannels}

\* P<c>:<us> lines
PwmLines ==
    {Str(<<"P", "0", ":", "1", "5", "0", "0">>),  \* P0:1500
     Str(<<"p", "3", ":", "6", "0", "0">>),  \* p3:600
     Str(<<"P", "0", ":", "2", "0", "0", "0", "1">>),  \* P0:20001
     Str(<<"P", "0", ":", "6", "7", "0", "3", "6">>),  \* P0:67036
     Str(<<"P", "6", ":", "1", "5", "0", "0">>),  \* P6:1500
     Str(<<"P", "0", ":", "-", "5">>)}  \* P0:-5

\* S lines a validation rejects, or should
ServoErrorLines ==
    {Str(<<"S", "0", ":", "1", "8", "1">>),  \* S0:181
     Str(<<"S", "0", ":", "9", "9", "9">>),  \* S0:999
     Str(<<"S", "0", ":", "6", "5", "6", "2", "6">>),  \* S0:65626
     Str(<<"S", "6", ":", "9", "0">>),  \* S6:90
     Str(<<"S", "G", ":", "9", "0">>),  \* SG:90
     Str(<<"S", "0", ":", "x">>),  \* S0:x
     Str(<<"S", "0">>),  \* S0
     Str(<<"S", "0", "-", "9", "0">>)}  \* S0-90

\* GET lines without a valid channel
GetErrorLines ==
    {Str(<<"G", "E", "T", " ", "6">>),  \* GET 6
     Str(<<"G", "E", "T", " ", "x">>),  \* GET x
     GET_UPPER}  \* GET 

\* POSE lines
PoseLines ==
    {Str(<<"P", "O", "S", "E", " ", "9", "0", ",", "4", "5">>),  \* POSE 90,45
     Str(<<"p", "o", "s", "e", " ", "1", "0">>),  \* pose 10
     Str(<<"P", "O", "S", "E", " ", "1", ",", "2", ",", "3", ",", "4", ",", "5", ",", "6">>),  \* POSE 1,2,3,4,5,6
     Str(<<"P", "O", "S", "E", " ", "9", "0", ",", "4", "5", ",", "9", "9", "9">>),  \* POSE 90,45,999
     Str(<<"P", "O", "S", "E", " ", "6", "5", "6", "2", "6">>),  \* POSE 65626
     Str(<<"P", "O", "S", "E", " ", "9", "0", ",", "x">>),  \* POSE 90,x
     Str(<<"P", "O", "S", "E", " ", "x">>),  \* POSE x
     Str(<<"P", "O", "S", "E", " ", "9", "0", " ", "4", "5">>),  \* POSE 90 45
     POSE_UPPER,  \* POSE 
     Str(<<"P", "O", "S", "E", " ", "1", ",", "2", ",", "3", ",", "4", ",", "5", ",", "6", ",", "7">>),  \* POSE 1,2,3,4,5,6,7
     Str(<<"P", "O", "S", "E", " ", "1", ",", "2", ",", "3", ",", "4", ",", "5", ",", "6", ",", "9", "9", "9">>),  \* POSE 1,2,3,4,5,6,999
     Str(<<"P", "O", "S", "E", " ", "1", ",", "2", ",", "3", ",", "4", ",", "5", ",", "6", " ", "x">>)}  \* POSE 1,2,3,4,5,6 x

\* MOVE lines
MoveLines ==
    {Str(<<"M", "O", "V", "E", " ", "2", "0", " ", "9", "0", ",", "4", "5">>),  \* MOVE 20 90,45
     Str(<<"M", "O", "V", "E", " ", "0", " ", "1", "0">>),  \* MOVE 0 10
     Str(<<"m", "o", "v", "e", " ", "4", "0", " ", "1", "8", "0">>),  \* move 40 180
     Str(<<"M", "O", "V", "E", " ", "2", "0", " ", "9", "0", ",", "9", "9", "9">>),  \* MOVE 20 90,999
     Str(<<"M", "O", "V", "E", " ", "2", "0", " ", "9", "0", " ", "4", "5">>),  \* MOVE 20 90 45
     Str(<<"M", "O", "V", "E", " ", "2", "0">>),  \* MOVE 20
     Str(<<"M", "O", "V", "E", " ", "x", " ", "9", "0">>),  \* MOVE x 90
     Str(<<"M", "O", "V", "E", " ", "2", "0", " ", "1", ",", "2", ",", "3", ",", "4", ",", "5", ",", "6", ",", "7">>)}  \* MOVE 20 1,2,3,4,5,6,7

\* keywords alone, with a tail, and in mixed case
KeywordLines ==
    {HELP_UPPER,  \* HELP
     HELP_LOWER,  \* help
     STOP_UPPER,  \* STOP
     STOP_LOWER,  \* stop
     Str(<<"P", "O", "S", "E">>),  \* POSE
     Str(<<"p", "o", "s", "e">>),  \* pose
     Str(<<"G", "E", "T">>),  \* GET
     Str(<<"M", "O", "V", "E">>),  \* MOVE
     Str(<<"S", "T", "O", "P", " ", "N", "O", "W">>),  \* STOP NOW
     Str(<<"H", "E", "L", "P", " ", "M", "E">>),  \* HELP ME
     Str(<<"S", "t", "o", "p">>),  \* Stop
     Str(<<"P", "o", "s", "e", " ", "9", "0">>),  \* Pose 90
     Str(<<"G", "e", "t", " ", "0">>),  \* Get 0
     Str(<<"H", "e", "l", "p">>),  \* Help
     Str(<<"M", "o", "v", "e", " ", "2", "0", " ", "9", "0">>)}  \* Move 20 90

\* lines that are no command
UnknownLines ==
    {Str(<<"X", "Y", "Z">>),  \* XYZ
     Str(<<"h", "e", "l", "l", "o">>),  \* hello
     Str(<<"?">>)}  \* ?

\* lines received in button mode
StartInputs ==
    {START_UPPER,  \* START
     START_LOWER,  \* start
     Str(<<"S", "t", "a", "r", "t">>),  \* Start
     HELP_UPPER,  \* HELP
     HELP_LOWER,  \* help
     Str(<<"S", "0", ":", "9", "0">>)}  \* S0:90


LineInputs ==
    ServoLines \cup GetLines \cup PwmLines \cup ServoErrorLines
    \cup GetErrorLines \cup PoseLines \cup MoveLines \cup KeywordLines
    \cup UnknownLines

NextSerial ==
    \/ \E line \in StartInputs : CheckStart(line) /\ UNCHANGED <<uart_vars, menu_vars, start_vars>>
    \/ EnterSerialMode /\ UNCHANGED <<uart_vars, menu_vars, start_vars>>
    \/ \E line \in LineInputs :
          lines < MaxLines /\ Dispatch(line) /\ UNCHANGED <<uart_vars, menu_vars, start_vars>>
    \/ \E line \in LineInputs :
          lines < MaxLines /\ DispatchMove(line) /\ UNCHANGED <<uart_vars, menu_vars, start_vars>>
    \/ MoveStep /\ UNCHANGED <<serial_vars, uart_vars, menu_vars, start_vars>>
    \/ MoveDelay /\ UNCHANGED <<serial_vars, uart_vars, menu_vars, start_vars>>
    \/ MoveEnd /\ UNCHANGED <<serial_vars, uart_vars, menu_vars, start_vars>>
    \/ MoveReply /\ UNCHANGED <<uart_vars, menu_vars, start_vars>>

SpecSerial == Init /\ [][NextSerial]_vars

(***************************************************************************)
(* uart.c: the receive ring.  The interrupt handler runs to completion     *)
(* between any two accesses of the main context to the volatile ring       *)
(* variables; every such access is one step of the main context            *)
(***************************************************************************)
\* x & UART_RX_BUFFER_MASK
Mask(x) == x % (UART_RX_BUFFER_MASK + 1)

\* if (next_head != rx_tail)
RingHasRoomAlways(next_head, tail) == TRUE
RingHasRoom(next_head, tail) == next_head # tail

\* data = rx_buffer[rx_tail]
GetcDataAfterAdvance(buffer, tail) == buffer[Mask(tail + 1)]
GetcData(buffer, tail) == buffer[tail]

\* the step just taken: who took it, and the ring it started from
Step(by) == [by |-> by, head |-> rx_head, tail |-> rx_tail, buffer |-> rx_buffer]

\* the byte the line delivers next (the bytes of a run are all different)
NextByte == (ring.arrived % 255) + 1

\* ISR(USART_RX_vect): the byte data has arrived
Receive(data) ==
    /\ LET next_head == Mask(rx_head + 1)
       IN IF RingHasRoom(next_head, rx_tail)
          THEN /\ rx_buffer' = [rx_buffer EXCEPT ![rx_head] = data]
               /\ rx_head' = next_head
               /\ ring' = [ring EXCEPT !.arrived = @ + 1,
                                       !.stored = Append(@, data),
                                       !.kept = Append(@, data),
                                       !.last = Step("isr")]
          ELSE /\ UNCHANGED <<rx_buffer, rx_head>>
               /\ ring' = [ring EXCEPT !.arrived = @ + 1,
                                       !.dropped = @ + 1,
                                       !.last = Step("isr")]
    /\ UNCHANGED <<rx_tail, main>>

\* the interrupt for the next byte of a flood
ReceiveInterrupt ==
    /\ ring.arrived < MaxArrivals
    /\ Receive(NextByte)

\* uart_getc, while (rx_head == rx_tail): the load of rx_head
GetcLoad ==
    /\ main.pc \in {"main", "getc_spin"}
    /\ main' = [main EXCEPT !.pc = "getc_test", !.head = rx_head]
    /\ ring' = [ring EXCEPT !.last = Step("main")]
    /\ UNCHANGED <<rx_buffer, rx_head, rx_tail>>

\* uart_getc, while (rx_head == rx_tail): the comparison with rx_tail
GetcTest ==
    /\ main.pc = "getc_test"
    /\ main' = [main EXCEPT !.pc = IF main.head = rx_tail THEN "getc_spin"
                                   ELSE "getc_read",
                            !.head = 0]
    /\ ring' = [ring EXCEPT !.last = Step("main")]
    /\ UNCHANGED <<rx_buffer, rx_head, rx_tail>>

\* uart_getc: uint8_t data = rx_buffer[rx_tail]
GetcRead ==
    /\ main.pc = "getc_read"
    /\ main' = [main EXCEPT !.pc = "getc_advance",
                            !.data = GetcData(rx_buffer, rx_tail)]
    /\ ring' = [ring EXCEPT !.last = Step("main")]
    /\ UNCHANGED <<rx_buffer, rx_head, rx_tail>>

\* uart_getc: rx_tail = (rx_tail + 1) & UART_RX_BUFFER_MASK; return data
GetcAdvance ==
    /\ main.pc = "getc_advance"
    /\ rx_tail' = Mask(rx_tail + 1)
    /\ main' = [main EXCEPT !.pc = "main", !.data = 0]
    /\ ring' = [ring EXCEPT !.got = Append(@, main.data), !.last = Step("main")]
    /\ UNCHANGED <<rx_buffer, rx_head>>

\* uart_available, return (rx_head != rx_tail): the load of rx_head
AvailableLoad ==
    /\ main.pc = "main"
    /\ main' = [main EXCEPT !.pc = "available_test", !.head = rx_head]
    /\ ring' = [ring EXCEPT !.last = Step("main")]
    /\ UNCHANGED <<rx_buffer, rx_head, rx_tail>>

\* uart_available: the comparison with rx_tail, and the value returned
AvailableTest ==
    /\ main.pc = "available_test"
    /\ main' = [main EXCEPT !.pc = "main", !.head = 0,
                            !.data = IF main.head # rx_tail THEN 1 ELSE 0]
    /\ ring' = [ring EXCEPT !.last = Step("main")]
    /\ UNCHANGED <<rx_buffer, rx_head, rx_tail>>

\* uart_flush, rx_tail = rx_head: the load of rx_head (explored for the
\* last FlushWindow arrivals of a run, on a ring of any fill)
FlushLoad ==
    /\ main.pc = "main"
    /\ ring.flushes < MaxFlushes
    /\ ring.arrived + FlushWindow >= MaxArrivals
    /\ main' = [main EXCEPT !.pc = "flush_store", !.head = rx_head]
    /\ ring' = [ring EXCEPT !.mark = Len(ring.kept), !.last = Step("main")]
    /\ UNCHANGED <<rx_buffer, rx_head, rx_tail>>

\* uart_flush, rx_tail = rx_head: the store to rx_tail; the bytes that were
\* buffered when rx_head was loaded are discarded
FlushStore ==
    /\ main.pc = "flush_store"
    /\ rx_tail' = main.head
    /\ main' = [main EXCEPT !.pc = "main", !.head = 0]
    /\ ring' = [ring EXCEPT !.flushes = @ + 1,
                            !.kept = ring.got
                                     \o SubSeq(ring.kept, ring.mark + 1,
                                               Len(ring.kept)),
                            !.last = Step("main")]
    /\ UNCHANGED <<rx_buffer, rx_head>>

NextUart ==
    \/ ReceiveInterrupt /\ UNCHANGED <<engine_vars, serial_vars, menu_vars, start_vars>>
    \/ GetcLoad /\ UNCHANGED <<engine_vars, serial_vars, menu_vars, start_vars>>
    \/ GetcTest /\ UNCHANGED <<engine_vars, serial_vars, menu_vars, start_vars>>
    \/ GetcRead /\ UNCHANGED <<engine_vars, serial_vars, menu_vars, start_vars>>
    \/ GetcAdvance /\ UNCHANGED <<engine_vars, serial_vars, menu_vars, start_vars>>
    \/ AvailableLoad /\ UNCHANGED <<engine_vars, serial_vars, menu_vars, start_vars>>
    \/ AvailableTest /\ UNCHANGED <<engine_vars, serial_vars, menu_vars, start_vars>>
    \/ FlushLoad /\ UNCHANGED <<engine_vars, serial_vars, menu_vars, start_vars>>
    \/ FlushStore /\ UNCHANGED <<engine_vars, serial_vars, menu_vars, start_vars>>

SpecUart == Init /\ [][NextUart]_vars

(***************************************************************************)
(* firmware/lcd_menu.c: the keypad menu on top of the command engine.      *)
(* The display and the pauses that follow a key press are not modelled: a  *)
(* step is one call of lcd_menu_update with the button buttons_read gave   *)
(***************************************************************************)
\* buttons_read: the button of an ADC reading of 0..1023
buttons_read(adc_value) ==
    IF adc_value >= 0 /\ adc_value < 50 THEN "RIGHT"
    ELSE IF adc_value >= 50 /\ adc_value < 250 THEN "UP"
    ELSE IF adc_value >= 250 /\ adc_value < 450 THEN "DOWN"
    ELSE IF adc_value >= 450 /\ adc_value < 650 THEN "LEFT"
    ELSE IF adc_value >= 650 /\ adc_value < 850 THEN "SELECT"
    ELSE "NONE"

\* lcd_menu_init of firmware/lcd_menu.c: the staged angles start as the
\* engine's stored angles; move_duration is not reset
lcd_menu_init(m, e) ==
    [m EXCEPT !.build = "firmware",
              !.current_state = "STATE_MENU",
              !.menu_selection = 0,
              !.selected_servo = 0,
              !.temp_angles = [i \in Slots |-> IF i < NUM_SERVOS
                                               THEN GetAngleIn(e.angles, i)
                                               ELSE m.temp_angles[i]]]

\* if (x > 0) x--; else x = n - 1;     if (x < n - 1) x++; else x = 0;
CursorUp(x, n) == IF x > 0 THEN x - 1 ELSE n - 1
\* a cursor that steps past the last item instead of wrapping to the first
CursorDownNoWrap(x, n) == (x + 1) % 256

CursorDown(x, n) == IF x < n - 1 THEN x + 1 ELSE 0

\* if (a < 180) { a += 5; if (a > 180) a = 180; }
AngleUp(a) == IF a < 180 THEN (IF a + 5 > 180 THEN 180 ELSE a + 5) ELSE a
\* a decrease taken in the uint8_t without the test against 5
AngleDownWraps(a) == IF a > 0 THEN (a - 5) % 256 ELSE a

\* if (a > 0) { if (a >= 5) a -= 5; else a = 0; }
AngleDown(a) == IF a > 0 THEN (IF a >= 5 THEN a - 5 ELSE 0) ELSE a

\* if (move_duration < 9900) move_duration += 100;
DurationUpUnbounded(d) == d + 100
DurationUp(d) == IF d < 9900 THEN d + 100 ELSE d
\* if (move_duration > 100) move_duration -= 100;
DurationDown(d) == IF d > 100 THEN d - 100 ELSE d

\* what one lcd_menu_update leaves: the menu, the engine, and the
\* cmd_execute_move it is inside of (run step by step afterwards)
MenuOutcome(m, e) == [menu |-> m, e |-> e, move |-> NoCall]

\* lines 207-250
UpdateMenu(m, e, button) ==
    IF button = "UP"
    THEN MenuOutcome([m EXCEPT !.menu_selection = CursorUp(@, NUM_MENU_OPTIONS)], e)
    ELSE IF button = "DOWN"
    THEN MenuOutcome([m EXCEPT !.menu_selection = CursorDown(@, NUM_MENU_OPTIONS)], e)
    ELSE IF button = "SELECT"
    THEN MenuOutcome(
             [m EXCEPT !.selected_servo = 0,
                       !.current_state =
                           IF m.menu_selection = MENU_MOTORS THEN "STATE_MOTORS"
                           ELSE IF m.menu_selection = MENU_CALIBRATION
                                THEN "STATE_CALIBRATION"
                           ELSE IF m.menu_selection = MENU_POSE THEN "STATE_POSE"
                           ELSE IF m.menu_selection = MENU_MOVE THEN "STATE_MOVE"
                           ELSE @], e)
    ELSE MenuOutcome(m, e)

\* a MOTORS screen on which SELECT does nothing
MotorsNoReturn(m, e, button) ==
    MenuOutcome([m EXCEPT !.selected_servo =
                     IF button = "UP" THEN CursorUp(@, NUM_SERVOS)
                     ELSE IF button = "DOWN" THEN CursorDown(@, NUM_SERVOS)
                     ELSE @], e)

\* lines 253-303: the live angle of the selected channel
UpdateMotors(m, e, button) ==
    LET angle == GetAngleIn(e.angles, m.selected_servo)
    IN IF button = "UP"
       THEN MenuOutcome([m EXCEPT !.selected_servo = CursorUp(@, NUM_SERVOS)], e)
       ELSE IF button = "DOWN"
       THEN MenuOutcome([m EXCEPT !.selected_servo = CursorDown(@, NUM_SERVOS)], e)
       ELSE IF button = "RIGHT"
       THEN MenuOutcome(m, IF angle < 180
                           THEN cmd_set_servo_angle(e, m.selected_servo, AngleUp(angle))
                           ELSE e)
       ELSE IF button = "LEFT"
       THEN MenuOutcome(m, IF angle > 0
                           THEN cmd_set_servo_angle(e, m.selected_servo, AngleDown(angle))
                           ELSE e)
       ELSE IF button = "SELECT"
       THEN MenuOutcome([m EXCEPT !.current_state = "STATE_MENU"], e)
       ELSE MenuOutcome(m, e)

\* lines 306-356: the live pulse width of the selected channel
UpdateCalibration(m, e, button) ==
    LET pulse_us == GetPwmUsIn(e.pulses, m.selected_servo)
    IN IF button = "UP"
       THEN MenuOutcome([m EXCEPT !.selected_servo = CursorUp(@, NUM_SERVOS)], e)
       ELSE IF button = "DOWN"
       THEN MenuOutcome([m EXCEPT !.selected_servo = CursorDown(@, NUM_SERVOS)], e)
       ELSE IF button = "RIGHT"
       THEN MenuOutcome(m, IF pulse_us < 20000
                           THEN cmd_set_servo_pwm_us(
                                    e, m.selected_servo,
                                    IF pulse_us + 10 > 20000 THEN 20000
                                    ELSE pulse_us + 10)
                           ELSE e)
       ELSE IF button = "LEFT"
       THEN MenuOutcome(m, IF pulse_us > 0
                           THEN cmd_set_servo_pwm_us(
                                    e, m.selected_servo,
                                    IF pulse_us >= 10 THEN pulse_us - 10 ELSE 0)
                           ELSE e)
       ELSE IF button = "SELECT"
       THEN MenuOutcome([m EXCEPT !.current_state = "STATE_MENU"], e)
       ELSE MenuOutcome(m, e)

\* an edit that drives the servo at once instead of staging the angle
StageAngleLive(m, e, i, a) ==
    MenuOutcome([m EXCEPT !.temp_angles[i] = a], cmd_set_servo_angle(e, i, a))
\* temp_angles[i] = a: an edit of the staged buffer
StageAngle(m, e, i, a) == MenuOutcome([m EXCEPT !.temp_angles[i] = a], e)

\* if (selected_servo == NUM_SERVOS) execute_pose();
PoseExecutesAlways(selected_servo) == TRUE
PoseExecutes(selected_servo) == selected_servo = NUM_SERVOS

\* lines 359-413: items 0..5 are the channels, item 6 is Execute
UpdatePose(m, e, button) ==
    LET num_items == NUM_SERVOS + 1
        i == m.selected_servo
    IN IF button = "UP"
       THEN MenuOutcome([m EXCEPT !.selected_servo = CursorUp(@, num_items)], e)
       ELSE IF button = "DOWN"
       THEN MenuOutcome([m EXCEPT !.selected_servo = CursorDown(@, num_items)], e)
       ELSE IF button = "RIGHT" /\ i < NUM_SERVOS
       THEN StageAngle(m, e, i, AngleUp(m.temp_angles[i]))
       ELSE IF button = "LEFT" /\ i < NUM_SERVOS
       THEN StageAngle(m, e, i, AngleDown(m.temp_angles[i]))
       ELSE IF button = "SELECT"
       THEN MenuOutcome([m EXCEPT !.current_state = "STATE_MENU"],
                        IF PoseExecutes(i)
                        THEN cmd_execute_pose(e, m.temp_angles, NUM_SERVOS)
                        ELSE e)
       ELSE MenuOutcome(m, e)

\* lines 416-488: item 0 is the duration, items 1..6 the channels, item 7
\* is Execute; the menu returns to STATE_MENU when execute_move has returned
UpdateMove(m, e, button) ==
    LET num_items == NUM_SERVOS + 2
        i == m.selected_servo
    IN IF button = "UP"
       THEN MenuOutcome([m EXCEPT !.selected_servo = CursorUp(@, num_items)], e)
       ELSE IF button = "DOWN"
       THEN MenuOutcome([m EXCEPT !.selected_servo = CursorDown(@, num_items)], e)
       ELSE IF button = "RIGHT"
       THEN IF i = 0
            THEN MenuOutcome([m EXCEPT !.move_duration = DurationUp(@)], e)
            ELSE IF i <= NUM_SERVOS
                 THEN StageAngle(m, e, i - 1, AngleUp(m.temp_angles[i - 1]))
                 ELSE MenuOutcome(m, e)
       ELSE IF button = "LEFT"
       THEN IF i = 0
            THEN MenuOutcome([m EXCEPT !.move_duration = DurationDown(@)], e)
            ELSE IF i <= NUM_SERVOS
                 THEN StageAngle(m, e, i - 1, AngleDown(m.temp_angles[i - 1]))
                 ELSE MenuOutcome(m, e)
       ELSE IF button = "SELECT"
       THEN [menu |-> [m EXCEPT !.current_state = "STATE_MENU"],
             e |-> e,
             move |-> IF i = NUM_SERVOS + 1
                      THEN [called |-> TRUE, duration_ms |-> m.move_duration,
                            angles |-> m.temp_angles, num_servos |-> NUM_SERVOS]
                      ELSE NoCall]
       ELSE MenuOutcome(m, e)

\* a poll that acts on no button as if SELECT were held
MenuUpdateNoIdle(m, e, button) ==
    LET b == IF button = "NONE" THEN "SELECT" ELSE button
    IN IF m.current_state = "STATE_MENU" THEN UpdateMenu(m, e, b)
       ELSE IF m.current_state = "STATE_MOTORS" THEN UpdateMotors(m, e, b)
       ELSE IF m.current_state = "STATE_CALIBRATION" THEN UpdateCalibration(m, e, b)
       ELSE IF m.current_state = "STATE_POSE" THEN UpdatePose(m, e, b)
       ELSE UpdateMove(m, e, b)

\* lcd_menu_update of firmware/lcd_menu.c, lines 199-491
lcd_menu_update(m, e, button) ==
    IF button = "NONE" THEN MenuOutcome(m, e)
    ELSE IF m.current_state = "STATE_MENU" THEN UpdateMenu(m, e, button)
    ELSE IF m.current_state = "STATE_MOTORS" THEN UpdateMotors(m, e, button)
    ELSE IF m.current_state = "STATE_CALIBRATION" THEN UpdateCalibration(m, e, button)
    ELSE IF m.current_state = "STATE_POSE" THEN UpdatePose(m, e, button)
    ELSE IF m.current_state = "STATE_MOVE" THEN UpdateMove(m, e, button)
    ELSE MenuOutcome(m, e)

(***************************************************************************)
(* src/lcd_menu.c: the earlier menu, which keeps its own servo_angles and  *)
(* servo_pwm_values and writes to the channel driver itself                *)
(***************************************************************************)
\* pca9685_set_servo_pwm (pca9685_set_servo_pwm_raw in firmware/pca9685.c)
pca9685_set_servo_pwm_raw(address, channel, pwm_value) ==
    LET evs == pca9685_set_pwm(address, channel, 0,
                               IF pwm_value > 4095 THEN 4095 ELSE pwm_value)
    IN [k \in 1..Len(evs) |-> evs[k] @@ [pulse_us |-> -1, angle |-> -1]]

\* lcd_menu_init of src/lcd_menu.c
lcd_menu_init_old(m) ==
    [m EXCEPT !.build = "src",
              !.current_state = "STATE_MENU",
              !.menu_selection = 0,
              !.selected_servo = 0,
              !.servo_angles = [i \in 0..(NUM_SERVOS - 1) |-> 90],
              !.servo_pwm_values = [i \in 0..(NUM_SERVOS - 1) |-> 307]]

\* what one lcd_menu_update of src/lcd_menu.c leaves: the menu and the
\* driver writes and step delays it made
OldOutcome(m, sent) == [menu |-> m, hw |-> sent]

\* execute_pose, lines 131-139
RECURSIVE OldPoseLoop(_, _)
OldPoseLoop(m, i) ==
    IF i < NUM_SERVOS
    THEN pca9685_set_servo_angle(PCA9685_DEFAULT_ADDRESS, i, m.servo_angles[i])
         \o OldPoseLoop(m, i + 1)
    ELSE <<>>

\* execute_move, lines 167-182: the step loop
RECURSIVE OldMoveLoop(_, _)
OldMoveLoop(plan, step) ==
    IF step <= plan.num_steps
    THEN StepWrites(plan, Factor(step, plan.num_steps), 0)
         \o (IF step < plan.num_steps
             THEN <<[ev |-> "delay", ms |-> MOVE_STEP_DELAY_MS]>>
             ELSE <<>>)
         \o OldMoveLoop(plan, (step + 1) % 65536)
    ELSE <<>>

\* execute_move, lines 142-187: the start is read from servo_angles, the
\* array the angle screen has just edited, and so is the target
execute_move_old(m) ==
    LET start_angles == [i \in 0..(NUM_SERVOS - 1) |-> m.servo_angles[i]]
        deltas == [i \in 0..(NUM_SERVOS - 1) |-> m.servo_angles[i] - start_angles[i]]
    IN OldMoveLoop([num_servos |-> NUM_SERVOS,
                    num_steps |-> NumSteps(m.move_duration),
                    start_angles |-> start_angles,
                    deltas |-> deltas], 0)

\* lines 213-248: the selection stops at both ends
UpdateOldMenu(m, button) ==
    IF button = "UP" /\ m.menu_selection > 0
    THEN OldOutcome([m EXCEPT !.menu_selection = @ - 1], <<>>)
    ELSE IF button = "DOWN" /\ m.menu_selection < NUM_MENU_OPTIONS - 1
    THEN OldOutcome([m EXCEPT !.menu_selection = @ + 1], <<>>)
    ELSE IF button = "SELECT"
    THEN OldOutcome(
             [m EXCEPT !.selected_servo = 0,
                       !.current_state =
                           IF m.menu_selection = MENU_MOTORS THEN "STATE_MOTORS"
                           ELSE IF m.menu_selection = MENU_CALIBRATION
                                THEN "STATE_CALIBRATION"
                           ELSE IF m.menu_selection = MENU_POSE THEN "STATE_POSE"
                           ELSE IF m.menu_selection = MENU_MOVE
                                THEN "STATE_MOVE_SET_DURATION"
                           ELSE @], <<>>)
    ELSE OldOutcome(m, <<>>)

\* lines 252-261, 293-302, 334-343, 399-408: LEFT and RIGHT move the cursor
OldCursor(m, button) ==
    IF button = "LEFT" /\ m.selected_servo > 0
    THEN [m EXCEPT !.selected_servo = @ - 1]
    ELSE IF button = "RIGHT" /\ m.selected_servo < NUM_SERVOS - 1
    THEN [m EXCEPT !.selected_servo = @ + 1]
    ELSE m

\* lines 262-266, 272-277 and their copies: UP and DOWN change servo_angles
OldAngleEdit(m, button) ==
    LET i == m.selected_servo
    IN IF button = "UP" /\ m.servo_angles[i] < 180
       THEN [m EXCEPT !.servo_angles[i] = AngleUp(@)]
       ELSE IF button = "DOWN" /\ m.servo_angles[i] > 0
       THEN [m EXCEPT !.servo_angles[i] = AngleDown(@)]
       ELSE m

\* lines 251-289: every change of the angle is written to the driver at once
UpdateOldMotors(m, button) ==
    LET i == m.selected_servo
        cursor == OldCursor(m, button)
        edit == OldAngleEdit(m, button)
    IN IF cursor # m THEN OldOutcome(cursor, <<>>)
       ELSE IF edit # m
       THEN OldOutcome(edit, pca9685_set_servo_angle(PCA9685_DEFAULT_ADDRESS, i,
                                                     edit.servo_angles[i]))
       ELSE IF button = "SELECT"
       THEN OldOutcome([m EXCEPT !.current_state = "STATE_MENU"], <<>>)
       ELSE OldOutcome(m, <<>>)

\* lines 292-330: the raw 12-bit value, in steps of 10
UpdateOldCalibration(m, button) ==
    LET i == m.selected_servo
        cursor == OldCursor(m, button)
        value == m.servo_pwm_values[i]
        up == IF value + 10 > 4095 THEN 4095 ELSE value + 10
        down == IF value >= 10 THEN value - 10 ELSE 0
    IN IF cursor # m THEN OldOutcome(cursor, <<>>)
       ELSE IF button = "UP" /\ value < 4095
       THEN OldOutcome([m EXCEPT !.servo_pwm_values[i] = up],
                       pca9685_set_servo_pwm_raw(PCA9685_DEFAULT_ADDRESS, i, up))
       ELSE IF button = "DOWN" /\ value > 0
       THEN OldOutcome([m EXCEPT !.servo_pwm_values[i] = down],
                       pca9685_set_servo_pwm_raw(PCA9685_DEFAULT_ADDRESS, i, down))
       ELSE IF button = "SELECT"
       THEN OldOutcome([m EXCEPT !.current_state = "STATE_MENU"], <<>>)
       ELSE OldOutcome(m, <<>>)

\* lines 333-368: SELECT writes every channel's angle and returns
UpdateOldPose(m, button) ==
    LET cursor == OldCursor(m, button)
        edit == OldAngleEdit(m, button)
    IN IF cursor # m THEN OldOutcome(cursor, <<>>)
       ELSE IF edit # m THEN OldOutcome(edit, <<>>)
       ELSE IF button = "SELECT"
       THEN OldOutcome([m EXCEPT !.current_state = "STATE_MENU"], OldPoseLoop(m, 0))
       ELSE OldOutcome(m, <<>>)

\* lines 371-395: the duration screen; LEFT cancels
UpdateOldDuration(m, button) ==
    IF button = "UP" /\ m.move_duration < 9900
    THEN OldOutcome([m EXCEPT !.move_duration = DurationUp(@)], <<>>)
    ELSE IF button = "DOWN" /\ m.move_duration > 100
    THEN OldOutcome([m EXCEPT !.move_duration = DurationDown(@)], <<>>)
    ELSE IF button = "SELECT"
    THEN OldOutcome([m EXCEPT !.selected_servo = 0, !.current_state = "STATE_MOVE"],
                    <<>>)
    ELSE IF button = "LEFT"
    THEN OldOutcome([m EXCEPT !.current_state = "STATE_MENU"], <<>>)
    ELSE OldOutcome(m, <<>>)

\* lines 398-433: the angle screen; SELECT runs execute_move and returns
UpdateOldMove(m, button) ==
    LET cursor == OldCursor(m, button)
        edit == OldAngleEdit(m, button)
    IN IF cursor # m THEN OldOutcome(cursor, <<>>)
       ELSE IF edit # m THEN OldOutcome(edit, <<>>)
       ELSE IF button = "SELECT"
       THEN OldOutcome([m EXCEPT !.current_state = "STATE_MENU"], execute_move_old(m))
       ELSE OldOutcome(m, <<>>)

\* lcd_menu_update of src/lcd_menu.c, lines 205-436
lcd_menu_update_old(m, button) ==
    IF button = "NONE" THEN OldOutcome(m, <<>>)
    ELSE IF m.current_state = "STATE_MENU" THEN UpdateOldMenu(m, button)
    ELSE IF m.current_state = "STATE_MOTORS" THEN UpdateOldMotors(m, button)
    ELSE IF m.current_state = "STATE_CALIBRATION" THEN UpdateOldCalibration(m, button)
    ELSE IF m.current_state = "STATE_POSE" THEN UpdateOldPose(m, button)
    ELSE IF m.current_state = "STATE_MOVE_SET_DURATION"
         THEN UpdateOldDuration(m, button)
    ELSE IF m.current_state = "STATE_MOVE" THEN UpdateOldMove(m, button)
    ELSE OldOutcome(m, <<>>)

(***************************************************************************)
(* The keypad as the main loop polls it.  press remembers the button of    *)
(* the last poll, the angle last written to each channel, and how many     *)
(* polls so far changed a value (edits) or ran a POSE or MOVE (runs)       *)
(***************************************************************************)
\* a poll that runs POSE or MOVE: SELECT on the Execute item of
\* firmware/lcd_menu.c, any SELECT on a POSE or MOVE angle screen of
\* src/lcd_menu.c
Runs(m, button) ==
    /\ button = "SELECT"
    /\ IF m.build = "firmware"
       THEN \/ m.current_state = "STATE_POSE" /\ m.selected_servo = NUM_SERVOS
            \/ m.current_state = "STATE_MOVE" /\ m.selected_servo = NUM_SERVOS + 1
       ELSE m.current_state \in {"STATE_POSE", "STATE_MOVE"}

\* the values a poll may change without running POSE or MOVE
Values(m, angles, pulses) == <<m.temp_angles, m.servo_angles, m.servo_pwm_values,
                               angles, pulses>>

\* the angle each channel was last sent, after the writes of one more poll
HeldAfter(held, sent) ==
    [i \in 0..(NUM_SERVOS - 1) |->
        LET mine == SelectSeq(sent, LAMBDA w : w.ev = "pwm" /\ w.channel = i
                                               /\ w.angle >= 0)
        IN IF mine = <<>> THEN held[i] ELSE mine[Len(mine)].angle]

Polled(button, m, angles, pulses, sent, run) ==
    [button |-> button, held |-> HeldAfter(press.held, sent), busy |-> FALSE,
     edits |-> IF ~run /\ Values(m, angles, pulses)
                          # Values(menu, servo_angles, servo_pulse_widths)
               THEN press.edits + 1 ELSE press.edits,
     runs |-> IF run THEN press.runs + 1 ELSE press.runs]

\* main calls lcd_menu_init once, after cmd_init
LcdMenuInit(build) ==
    /\ menu.build = "none"
    /\ CallerFree
    /\ ser.mode = "button"
    /\ menu' = IF build = "firmware" THEN lcd_menu_init(menu, Engine)
               ELSE lcd_menu_init_old(menu)
    /\ press' = press
    /\ UNCHANGED engine_vars

\* one lcd_menu_update of firmware/lcd_menu.c; a SELECT on the Execute item
\* of MOVE leaves it inside cmd_execute_move
Press(adc_value) ==
    /\ menu.build = "firmware"
    /\ ser.mode = "button"
    /\ CallerFree
    /\ LET button == buttons_read(adc_value)
           r == lcd_menu_update(menu, Engine, button)
           run == Runs(menu, button)
       IN IF r.move.called
          THEN /\ MoveBegin(r.move.duration_ms, r.move.angles, r.move.num_servos)
               /\ menu' = menu
               /\ press' = [Polled(button, menu, servo_angles, servo_pulse_widths,
                                   <<>>, TRUE) EXCEPT !.busy = TRUE]
          ELSE /\ menu' = r.menu
               /\ servo_angles' = r.e.angles
               /\ servo_pulse_widths' = r.e.pulses
               /\ hw' = r.e.hw
               /\ reads' = r.e.reads
               /\ press' = Polled(button, r.menu, r.e.angles, r.e.pulses, r.e.hw, run)
               /\ UNCHANGED <<pc, mv, call, calls>>

\* lines 483-486: execute_move has returned, the menu shows again
MenuMoveReturn ==
    /\ press.busy
    /\ pc = "idle"
    /\ menu' = [menu EXCEPT !.current_state = "STATE_MENU"]
    /\ press' = [press EXCEPT !.busy = FALSE, !.held = HeldAfter(@, hw)]
    /\ UNCHANGED engine_vars

\* one lcd_menu_update of src/lcd_menu.c
PressOld(adc_value) ==
    /\ menu.build = "src"
    /\ ser.mode = "button"
    /\ pc = "idle"
    /\ LET button == buttons_read(adc_value)
           r == lcd_menu_update_old(menu, button)
           run == Runs(menu, button)
       IN /\ menu' = r.menu
          /\ hw' = r.hw
          /\ press' = Polled(button, r.menu, servo_angles, servo_pulse_widths,
                             r.hw, run)
    /\ UNCHANGED <<servo_angles, servo_pulse_widths, reads, pc, mv, call, calls>>

\* one ADC reading for every button, and one for none
AdcInputs == {0, 50, 250, 450, 650, 850}

\* the polls explored: those that keep Changes within MaxChanges, with the
\* edits on the channels EditChannels
EditChannels == {0}
EditedChannel(m) ==
    IF m.build = "firmware" /\ m.current_state = "STATE_MOVE"
    THEN m.selected_servo - 1 ELSE m.selected_servo
Changes(m, p) ==
    p.edits + p.runs
    + (IF m.move_duration >= 1000 THEN m.move_duration - 1000
       ELSE 1000 - m.move_duration) \div 100
MayRun(adc_value) ==
    Runs(menu, buttons_read(adc_value)) => Changes(menu, press) < MaxChanges
Explored ==
    /\ Changes(menu', press') <= MaxChanges
    /\ press'.edits # press.edits => EditedChannel(menu) \in EditChannels

NextMenu ==
    \/ \E build \in {"firmware", "src"} :
          LcdMenuInit(build) /\ UNCHANGED <<serial_vars, uart_vars, start_vars>>
    \/ \E adc_value \in AdcInputs :
          MayRun(adc_value) /\ Press(adc_value) /\ Explored
                            /\ UNCHANGED <<serial_vars, uart_vars, start_vars>>
    \/ \E adc_value \in AdcInputs :
          MayRun(adc_value) /\ PressOld(adc_value) /\ Explored
                            /\ UNCHANGED <<serial_vars, uart_vars, start_vars>>
    \/ MoveStep /\ UNCHANGED <<serial_vars, uart_vars, menu_vars, start_vars>>
    \/ MoveDelay /\ UNCHANGED <<serial_vars, uart_vars, menu_vars, start_vars>>
    \/ MoveEnd /\ UNCHANGED <<serial_vars, uart_vars, menu_vars, start_vars>>
    \/ MenuMoveReturn /\ UNCHANGED <<serial_vars, uart_vars, start_vars>>

SpecMenu == Init /\ [][NextMenu]_vars

\* the duration screen alone: every poll that neither edits an angle or a
\* pulse nor runs POSE or MOVE, whatever the staged duration
NextDuration ==
    \/ \E build \in {"firmware", "src"} :
          LcdMenuInit(build) /\ UNCHANGED <<serial_vars, uart_vars, start_vars>>
    \/ \E adc_value \in AdcInputs :
          ~Runs(menu, buttons_read(adc_value))
              /\ Press(adc_value) /\ press'.edits = 0
              /\ UNCHANGED <<serial_vars, uart_vars, start_vars>>
    \/ \E adc_value \in AdcInputs :
          ~Runs(menu, buttons_read(adc_value))
              /\ PressOld(adc_value) /\ press'.edits = 0
              /\ UNCHANGED <<serial_vars, uart_vars, start_vars>>

SpecDuration == Init /\ [][NextDuration]_vars

(***************************************************************************)
(* Properties                                                              *)
(***************************************************************************)
\* the driver writes the call sent to channel i, in order
UpdatesOf(i) == SelectSeq(hw, LAMBDA e : e.ev = "pwm" /\ e.channel = i)
\* the delays the call executed
Delays == SelectSeq(hw, LAMBDA e : e.ev = "delay")
\* the channels a pose or move call with this count addresses
Moved(num_servos) ==
    0..((IF num_servos > NUM_SERVOS THEN NUM_SERVOS ELSE num_servos) - 1)
AtMost180(x) == IF x > 180 THEN 180 ELSE x
Returns(op) == pc = "idle" /\ call.op = op

\* C1: for every valid channel c and every angle a in 0..180, after
\* cmd_set_servo_angle(c, a) the next cmd_get_servo_angle(c) returns exactly a.
C1_SetThenGet ==
    (Returns("set_angle") /\ call.channel < NUM_SERVOS /\ call.angle <= 180)
        => cmd_get_servo_angle(call.channel) = call.angle

C1_Witness ==
    /\ Returns("set_angle")
    /\ call.channel = 5 /\ call.angle = 45
    /\ call.pre_angles[5] # 45
    /\ cmd_get_servo_angle(5) = 45

\* C2: for every valid channel c and every 8-bit angle a in 181..255,
\* cmd_set_servo_angle(c, a) is accepted (it writes to the driver) and stores
\* exactly 180, which cmd_get_servo_angle(c) then returns.
C2_ClampTo180 ==
    (Returns("set_angle") /\ call.channel < NUM_SERVOS /\ call.angle > 180)
        => /\ servo_angles[call.channel] = 180
           /\ cmd_get_servo_angle(call.channel) = 180
           /\ servo_pulse_widths[call.channel] = 2500
           /\ Len(hw) = 1
           /\ hw[1].channel = call.channel
           /\ hw[1].pulse_us = 2500

C2_Witness ==
    /\ Returns("set_angle")
    /\ call.channel = 3 /\ call.angle = 255
    /\ call.pre_angles[3] # 180
    /\ cmd_get_servo_angle(3) = 180

C4_Original ==
    Returns("move")
        => \A i \in Moved(call.num_servos) :
              LET u == UpdatesOf(i)
                  d == call.duration_ms \div 20
              IN /\ Len(u) = (IF d < 1 THEN 1 ELSE d) + 1
                 /\ u[1].angle = call.pre_angles[i]
                 /\ u[Len(u)].angle = call.angles[i]

\* C4 amended: cmd_execute_move issues exactly max(1, duration_ms/20) + 1
\* updates per moved channel (51 for 1000 ms); the step-0 update sends the
\* angle stored when the call began, limited to 180, and the final update
\* sends targets[i], limited to 180.
C4_MoveUpdates ==
    Returns("move")
        => \A i \in Moved(call.num_servos) :
              LET u == UpdatesOf(i)
                  d == call.duration_ms \div 20
              IN /\ Len(u) = (IF d < 1 THEN 1 ELSE d) + 1
                 /\ u[1].angle = AtMost180(call.pre_angles[i])
                 /\ u[Len(u)].angle = AtMost180(call.angles[i])

C4_Witness ==
    /\ Returns("move")
    /\ call.duration_ms = 1000
    /\ call.num_servos = 7
    /\ Len(UpdatesOf(5)) = 51
    /\ UpdatesOf(5)[1].angle = 90
    /\ call.angles[5] = 255
    /\ UpdatesOf(5)[51].angle = 180

\* the scenario of C5: channel 0 stored at 90, cmd_execute_move(2000, [180], 1)
C5_Scenario ==
    /\ call.op = "move"
    /\ call.duration_ms = 2000
    /\ call.num_servos = 1
    /\ call.angles[0] = 180
    /\ call.pre_angles[0] = 90

\* C5 as claimed: the scenario performs 51 step updates, and at step 25 the
\* interpolation factor is 490 and the angle sent to channel 0 is 134.
C5_Original ==
    C5_Scenario
        => /\ (pc = "idle" => Len(UpdatesOf(0)) = 51)
           /\ (pc = "move_delay" /\ mv.step = 25
                  => /\ Factor(mv.step, mv.num_steps) = 490
                     /\ hw[Len(hw)].angle = 134)

\* C5 amended: the scenario performs 101 step updates (num_steps = 100), and at
\* step 25 the interpolation factor is 250 and the angle sent to channel 0 is
\* 90 + (180-90)*250/1000 = 112.
C5_Step25 ==
    C5_Scenario
        => /\ (pc = "idle" => Len(UpdatesOf(0)) = 101)
           /\ (pc = "move_delay" /\ mv.step = 25
                  => /\ Factor(mv.step, mv.num_steps) = 250
                     /\ Len(UpdatesOf(0)) = 26
                     /\ hw[Len(hw)].channel = 0
                     /\ hw[Len(hw)].angle = 112)

C5_Witness ==
    /\ C5_Scenario
    /\ pc = "move_delay"
    /\ mv.step = 25
    /\ hw[Len(hw)].angle = 112

\* C6 as claimed: for every duration_ms < 20 each moved channel receives a
\* single update, equal to its target, and no 20 ms delay is executed.
C6_Original ==
    (Returns("move") /\ call.duration_ms < 20)
        => /\ \A i \in Moved(call.num_servos) :
                 /\ Len(UpdatesOf(i)) = 1
                 /\ UpdatesOf(i)[1].angle = call.angles[i]
           /\ Len(Delays) = 0

\* C6 amended: for every duration_ms < 20 the move has num_steps = 1: each
\* moved channel receives exactly two updates, the step-0 update at its start
\* angle and the final update at its target (each limited to 180), and exactly
\* one 20 ms delay is executed, between the two steps.
C6_ShortMove ==
    (Returns("move") /\ call.duration_ms < 20)
        => LET n == Cardinality(Moved(call.num_servos))
           IN /\ \A i \in Moved(call.num_servos) :
                    /\ Len(UpdatesOf(i)) = 2
                    /\ UpdatesOf(i)[1].angle = AtMost180(call.pre_angles[i])
                    /\ UpdatesOf(i)[2].angle = AtMost180(call.angles[i])
              /\ Len(Delays) = 1
              /\ Len(hw) = 2 * n + 1
              /\ hw[n + 1] = [ev |-> "delay", ms |-> 20]

C6_Witness ==
    /\ Returns("move")
    /\ call.duration_ms = 0
    /\ call.num_servos = 2
    /\ Len(UpdatesOf(1)) = 2
    /\ UpdatesOf(1)[1].angle # UpdatesOf(1)[2].angle
    /\ Len(Delays) = 1

\* C7: cmd_set_servo_pwm_us(c, p) leaves the stored angle of every channel
\* unchanged: cmd_get_servo_angle returns the same value for every channel
\* before and after the call.
C7_PwmLeavesAngles ==
    Returns("set_pwm_us")
        => /\ servo_angles = call.pre_angles
           /\ \A c \in U8 :
                 cmd_get_servo_angle(c) =
                     (IF c >= NUM_SERVOS THEN 90 ELSE call.pre_angles[c])

C7_Witness ==
    /\ Returns("set_pwm_us")
    /\ call.channel = 0 /\ call.pulse_us = 2501
    /\ call.pre_pulses[0] # 2501
    /\ servo_pulse_widths[0] = 2501
    /\ cmd_get_servo_angle(0) = call.pre_angles[0]

\* C8: in every state reached from cmd_init by cmd_set_servo_angle,
\* cmd_execute_pose and cmd_execute_move alone (no cmd_set_servo_pwm_us), every
\* channel's stored pulse width equals 500 + angle * 2000 / 180 (truncating)
\* for its stored angle.
C8_AnglePulseConsistent ==
    ~call.pwm_used
        => \A i \in 0..(NUM_SERVOS - 1) :
              servo_pulse_widths[i] = 500 + ((servo_angles[i] * 2000) \div 180)

\* C9: in every state reachable by engine operations with arbitrary 8-bit
\* angles, 16-bit pulses and durations and arbitrary counts, every channel's
\* stored angle is in [0,180] and its stored pulse width is in [0,20000].
C9_StoredDomains ==
    \A i \in 0..(NUM_SERVOS - 1) :
        /\ servo_angles[i] \in 0..180
        /\ servo_pulse_widths[i] \in 0..20000

\* C10: for every count > NUM_SERVOS, cmd_execute_pose(angles, count) leaves
\* the same stored state and the same sequence of driver writes as
\* cmd_execute_pose(angles, NUM_SERVOS): channels 0..NUM_SERVOS-1 are set in
\* index order and no entry beyond index NUM_SERVOS-1 is read.
C10_PoseCountClamped ==
    (Returns("pose") /\ call.num_servos > NUM_SERVOS)
        => LET e == cmd_execute_pose(
                        [angles |-> call.pre_angles, pulses |-> call.pre_pulses,
                         hw |-> <<>>, reads |-> {}],
                        call.angles, NUM_SERVOS)
           IN /\ servo_angles = e.angles
              /\ servo_pulse_widths = e.pulses
              /\ hw = e.hw
              /\ reads = 0..(NUM_SERVOS - 1)
              /\ Len(hw) = NUM_SERVOS
              /\ \A k \in 1..NUM_SERVOS :
                    /\ hw[k].channel = k - 1
                    /\ hw[k].pulse_us =
                           500 + ((AtMost180(call.angles[k - 1]) * 2000) \div 180)
              /\ \A i \in 0..(NUM_SERVOS - 1) :
                    servo_angles[i] = AtMost180(call.angles[i])

C10_Witness ==
    /\ Returns("pose")
    /\ call.num_servos = 8
    /\ servo_angles # call.pre_angles
    /\ Len(hw) = NUM_SERVOS
    /\ reads = 0..(NUM_SERVOS - 1)

(***************************************************************************)
(* Properties of the text protocol                                         *)
(***************************************************************************)
\* a line has been dispatched and its handler has returned
Dispatched == ser.op = "dispatch" /\ ~ser.busy
\* the stored state is what it was before the line
StateUntouched ==
    servo_angles = ser.pre_angles /\ servo_pulse_widths = ser.pre_pulses
\* the line caused no duty write
NoDutyWrite == \A k \in 1..Len(hw) : hw[k].ev # "pwm"

\* the replies of the protocol
ReplyOk == <<Puts("OK\n")>>
ReplyInvalidServo ==
    <<Puts("ERROR: Invalid servo (must be 0-"), Putc(Ord("5")), Puts(" hex)\n")>>
ReplyInvalidAngle == <<Puts("ERROR: Invalid angle (must be 0-180)\n")>>
ReplyInvalidPulse == <<Puts("ERROR: Invalid pulse width (must be 0-20000us)\n")>>
ReplyTooMany ==
    <<Puts("ERROR: Too many servos (max "), Putc(Ord("5")), Puts(")\n")>>
ReplyUnknown == <<Puts("ERROR: Unknown command (type HELP for list)\n")>>

\* the value of the decimal numeral at p as a reader takes it, whatever its
\* number of digits (values past 100000 are all "far too large")
RECURSIVE Numeral(_, _, _)
Numeral(s, p, acc) ==
    IF IsDigit(At(s, p))
    THEN Numeral(s, p + 1,
                 IF acc >= 100000 THEN acc ELSE acc * 10 + (At(s, p) - Ord("0")))
    ELSE [value |-> acc, p |-> p]

\* the line starts with these characters
StartsWith(line, cs) == StrNEq(line, Str(cs), Len(cs))

PoseLine(line) ==
    StartsWith(line, <<"P", "O", "S", "E", " ">>)
    \/ StartsWith(line, <<"p", "o", "s", "e", " ">>)
MoveLine(line) ==
    StartsWith(line, <<"M", "O", "V", "E", " ">>)
    \/ StartsWith(line, <<"m", "o", "v", "e", " ">>)

\* where the angle list of a POSE or MOVE line starts: after the keyword,
\* and for MOVE after the duration; -1 when a MOVE line has no duration
ListStart(line) ==
    IF PoseLine(line) THEN 5
    ELSE LET q == skip_whitespace(line, 5)
         IN IF IsDigit(At(line, q))
            THEN skip_whitespace(line, Numeral(line, q, 0).p)
            ELSE -1

ListLine(line) == (PoseLine(line) \/ MoveLine(line)) /\ ListStart(line) # -1

\* the list from p on holds an invalid element: a non-digit where a value is
\* expected, a value above 180, or a stray character after a value
RECURSIVE ElementFault(_, _)
ElementFault(s, p) ==
    LET q == skip_whitespace(s, p)
        n == Numeral(s, q, 0)
        r == skip_whitespace(s, n.p)
    IN IF At(s, q) = 0 THEN FALSE
       ELSE IF ~IsDigit(At(s, q)) THEN TRUE
       ELSE IF n.value > 180 THEN TRUE
       ELSE IF At(s, r) = Ord(",") THEN ElementFault(s, r + 1)
       ELSE At(s, r) # 0

\* the list from p on holds a value above 180
RECURSIVE ElementAbove180(_, _)
ElementAbove180(s, p) ==
    LET q == skip_whitespace(s, p)
        n == Numeral(s, q, 0)
        r == skip_whitespace(s, n.p)
    IN IF ~IsDigit(At(s, q)) THEN FALSE
       ELSE IF n.value > 180 THEN TRUE
       ELSE IF At(s, r) = Ord(",") THEN ElementAbove180(s, r + 1)
       ELSE FALSE

\* C11: a POSE or MOVE line whose angle list contains any invalid element (a
\* value above 180, a non-digit where a value is expected, a stray character
\* where a comma or the end is expected) is rejected atomically: no stored
\* angle or pulse changes and no duty write is issued.
C11_ListRejectedAtomically ==
    (Dispatched /\ ListLine(ser.line)
                /\ ElementFault(ser.line, ListStart(ser.line)))
        => (StateUntouched /\ NoDutyWrite)

\* a line "S<c>:<v>" or "P<c>:<v>" with a valid channel digit and a numeral
ChannelLine(line, upper, lower) ==
    /\ Len(line) >= 4
    /\ At(line, 0) \in {Ord(upper), Ord(lower)}
    /\ parse_hex_digit(At(line, 1)) < NUM_SERVOS
    /\ At(line, 2) = Ord(":")
    /\ IsDigit(At(line, 3))
    /\ Numeral(line, 3, 0).p = Len(line)
ChannelLineValue(line) == Numeral(line, 3, 0).value

\* C12: every unsigned decimal numeral whose value exceeds its domain,
\* whatever its number of digits, is rejected and no state changes: S<c>:<v>
\* with v > 180 replies invalid angle, P<c>:<v> with v > 20000 replies invalid
\* pulse, and a POSE/MOVE list element v > 180 fails the whole list.
C12_OutOfDomainRejected ==
    Dispatched =>
        /\ (ChannelLine(ser.line, "S", "s") /\ ChannelLineValue(ser.line) > 180)
              => (tx = ReplyInvalidAngle /\ StateUntouched /\ NoDutyWrite)
        /\ (ChannelLine(ser.line, "P", "p") /\ ChannelLineValue(ser.line) > 20000)
              => (tx = ReplyInvalidPulse /\ StateUntouched /\ NoDutyWrite)
        /\ (ListLine(ser.line) /\ ElementAbove180(ser.line, ListStart(ser.line)))
              => (tx # ReplyOk /\ StateUntouched /\ NoDutyWrite)

\* the reply to GET <c> that reports the angle a
ReplyServo(c, a) ==
    <<Puts("SERVO "), Putc(value_to_hex(c)), Puts(": ")>>
    \o [k \in 1..Len(Decimal(a)) |-> Putc(Decimal(a)[k])]
    \o <<Puts(" degrees\n")>>

\* the line before the last one was S<c>:<a>, the last one GET <c>
SetThenGet(c, a) ==
    /\ Dispatched
    /\ ser.line = GetLine(c)
    /\ ser.prev.op = "dispatch"
    /\ ser.prev.line = SLine(c, a)

\* C13: in serial mode, for every valid channel digit c and every angle a in
\* 0..180, the line "S<c>:<a>" is answered OK and a following "GET <c>" is
\* answered "SERVO <c>: <a> degrees" with the decimal numeral of a.  Checked
\* on the lines the session dispatched, and for each channel and each of
\* the 181 angles from the state serial mode is first entered in.
C13_SetThenGetReply ==
    /\ \A c \in 0..(NUM_SERVOS - 1) :
          (Dispatched /\ ser.line = GetLine(c) /\ ser.prev.op = "dispatch")
              => \A a \in 0..180 :
                     ser.prev.line = SLine(c, a)
                         => (ser.prev.tx = ReplyOk /\ tx = ReplyServo(c, a))
    /\ (ser.op = "enter" /\ lines = 0)
          => \A c \in 0..(NUM_SERVOS - 1), a \in 0..180 :
                 LET set == process_command(Engine, SLine(c, a))
                     get == process_command(set.e, GetLine(c))
                 IN set.tx = ReplyOk /\ get.tx = ReplyServo(c, a)

C13_Witness ==
    /\ SetThenGet(5, 99)
    /\ tx = <<Puts("SERVO "), Putc(Ord("5")), Puts(": "), Putc(Ord("9")),
              Putc(Ord("9")), Puts(" degrees\n")>>

\* the engine state the last line was dispatched in
PreEngine == [angles |-> ser.pre_angles, pulses |-> ser.pre_pulses,
              hw |-> <<>>, reads |-> {}]

\* the code the handler of the line returned to process_command
HandlerResult(e, line) ==
    LET route == Route(line)
    IN IF route = "get" THEN execute_get_command(e, line).result
       ELSE IF route = "pose" THEN execute_pose_command(e, line).result
       ELSE IF route = "move" THEN execute_move_command(e, line).result
       ELSE IF route = "servo" THEN execute_servo_command(e, line).result
       ELSE IF route = "pwm" THEN execute_pwm_command(e, line).result
       ELSE IF route = "unknown" THEN CMD_UNKNOWN
       ELSE CMD_OK

\* the complete error replies of the protocol
ErrorReplies ==
    {ReplyInvalidServo, ReplyInvalidAngle, ReplyInvalidPulse, ReplyTooMany,
     ReplyUnknown,
     <<Puts("ERROR: Invalid GET command\n")>>,
     <<Puts("ERROR: Invalid POSE format\n")>>,
     <<Puts("ERROR: Invalid MOVE format\n")>>,
     <<Puts("ERROR: Invalid command format\n")>>}

\* C14: every non-empty line that process_command rejects (unknown command,
\* invalid channel, invalid value, malformed syntax) leaves every stored angle
\* and pulse width untouched, issues no duty write, emits exactly one ERROR
\* reply and keeps the session running; every accepted S, P, POSE or MOVE
\* line is answered with exactly one OK.
C14_RejectedLineIsNoOp ==
    Dispatched =>
        LET result == HandlerResult(PreEngine, ser.line)
        IN /\ (Len(ser.line) > 0 /\ result \notin {CMD_OK, CMD_EXIT})
                 => /\ StateUntouched
                    /\ NoDutyWrite
                    /\ tx \in ErrorReplies
                    /\ ser.mode = "serial"
                    /\ ser.result = CMD_OK
           /\ (Route(ser.line) \in {"servo", "pwm", "pose", "move"}
               /\ result = CMD_OK)
                 => tx = ReplyOk

C14_Witness ==
    /\ Dispatched
    /\ ser.line = Str(<<"S", "0", ":", "1", "8", "1">>)
    /\ ser.pre_angles[0] = 99
    /\ servo_angles[0] = 99
    /\ NoDutyWrite
    /\ tx = ReplyInvalidAngle
    /\ ser.mode = "serial"

\* a line "S<x>:<v>" or "P<x>:<v>" whose channel character x is no valid
\* channel, with a numeral v inside its domain
BadChannelLine(line, upper, lower, max) ==
    /\ Len(line) >= 4
    /\ At(line, 0) \in {Ord(upper), Ord(lower)}
    /\ parse_hex_digit(At(line, 1)) >= NUM_SERVOS
    /\ At(line, 2) = Ord(":")
    /\ IsDigit(At(line, 3))
    /\ Numeral(line, 3, 0).p = Len(line)
    /\ Numeral(line, 3, 0).value <= max

\* the line starts with a keyword, in capitals or in small letters
Keyword(line, upper, lower) == StartsWith(line, upper) \/ StartsWith(line, lower)
KeywordLine(line) ==
    \/ Keyword(line, <<"G", "E", "T">>, <<"g", "e", "t">>)
    \/ Keyword(line, <<"P", "O", "S", "E">>, <<"p", "o", "s", "e">>)
    \/ Keyword(line, <<"M", "O", "V", "E">>, <<"m", "o", "v", "e">>)
    \/ Keyword(line, <<"H", "E", "L", "P">>, <<"h", "e", "l", "p">>)
    \/ Keyword(line, <<"S", "T", "O", "P">>, <<"s", "t", "o", "p">>)

\* a line that is no command at all
Unrecognised(line) ==
    /\ Len(line) > 0
    /\ At(line, 0) \notin {Ord("S"), Ord("s"), Ord("P"), Ord("p")}
    /\ ~KeywordLine(line)

\* C15: the error reply of a rejected command identifies which validation
\* failed: an out-of-range channel yields the invalid-channel error, an
\* out-of-domain value (also inside a POSE or MOVE list) the invalid-value
\* error, an unrecognised line the unknown-command error; no failure of one
\* kind is reported with the token of another kind.
C15_ErrorIdentifiesFailure ==
    Dispatched =>
        /\ (BadChannelLine(ser.line, "S", "s", 180)
            \/ BadChannelLine(ser.line, "P", "p", 20000))
              => tx = ReplyInvalidServo
        /\ (ChannelLine(ser.line, "S", "s") /\ ChannelLineValue(ser.line) > 180)
              => tx = ReplyInvalidAngle
        /\ (ChannelLine(ser.line, "P", "p") /\ ChannelLineValue(ser.line) > 20000)
              => tx = ReplyInvalidPulse
        /\ (ListLine(ser.line) /\ ElementAbove180(ser.line, ListStart(ser.line)))
              => tx = ReplyInvalidAngle
        /\ Unrecognised(ser.line) => tx = ReplyUnknown

\* the position after k list items (a numeral and the comma that follows
\* it) from p on, or -1 when the list has no k well-formed items
RECURSIVE AfterItems(_, _, _)
AfterItems(s, p, k) ==
    LET q == skip_whitespace(s, p)
        n == Numeral(s, q, 0)
        r == skip_whitespace(s, n.p)
    IN IF k = 0 THEN p
       ELSE IF ~IsDigit(At(s, q)) THEN -1
       ELSE IF At(s, r) = Ord(",") THEN AfterItems(s, r + 1, k - 1)
       ELSE IF k = 1 THEN r
       ELSE -1

\* a POSE or MOVE line with text after its NUM_SERVOS-th angle
Overlong(line) ==
    /\ ListLine(line)
    /\ LET q == AfterItems(line, ListStart(line), NUM_SERVOS)
       IN q # -1 /\ At(line, skip_whitespace(line, q)) # 0

\* C16: a POSE or MOVE line that lists more than NUM_SERVOS angles (or has
\* any further text after the NUM_SERVOS-th angle) is rejected with the
\* too-many-servos error and modifies no channel; it is never executed using
\* only its first NUM_SERVOS angles.
C16_TooManyRejected ==
    (Dispatched /\ Overlong(ser.line))
        => (tx = ReplyTooMany /\ StateUntouched /\ NoDutyWrite)

\* C17: for every line that begins with one of the keywords GET, POSE, MOVE,
\* HELP or STOP, process_command decides the keyword before the
\* single-letter prefixes: the line is never routed to execute_servo_command
\* or execute_pwm_command and never answered with a single-channel error
\* such as invalid servo.
C17_KeywordsBeforeLetters ==
    (ser.op = "dispatch" /\ KeywordLine(ser.line))
        => /\ Route(ser.line) \notin {"servo", "pwm"}
           /\ RouteOld(ser.line) \notin {"servo", "pwm"}
           /\ tx # ReplyInvalidServo

\* the capital of a letter
ToUpper(c) == IF c >= Ord("a") /\ c <= Ord("z") THEN c - 32 ELSE c
\* the number of letters the line starts with
RECURSIVE WordLen(_, _)
WordLen(line, p) ==
    IF ToUpper(At(line, p)) >= Ord("A") /\ ToUpper(At(line, p)) <= Ord("Z")
    THEN WordLen(line, p + 1) ELSE p
Keywords ==
    {START_UPPER, STOP_UPPER,
     HELP_UPPER, Str(<<"G", "E", "T">>),
     Str(<<"P", "O", "S", "E">>), Str(<<"M", "O", "V", "E">>)}
\* the first word of the line in capitals
UpperWord(line) == [i \in 1..WordLen(line, 0) |-> ToUpper(line[i])]
\* the line with its keyword, if it starts with one, spelt in capitals
UpperKeyword(line) ==
    IF UpperWord(line) \in Keywords
    THEN [i \in 1..Len(line) |->
             IF i <= WordLen(line, 0) THEN ToUpper(line[i]) ELSE line[i]]
    ELSE line

\* C18: command keywords are case-insensitive: for each of START, STOP, HELP,
\* GET, POSE and MOVE every upper/lower-case spelling of the keyword
\* (including mixed case such as "Stop" or "Pose 90") is recognised and
\* dispatched the same way as the all-upper-case spelling.
C18_KeywordsCaseInsensitive ==
    /\ ser.op = "dispatch"
          => /\ Route(ser.line) = Route(UpperKeyword(ser.line))
             /\ ser.result = process_command(PreEngine, UpperKeyword(ser.line)).result
    /\ ser.op = "check_start"
          => ser.result = serial_check_start(UpperKeyword(ser.line)).result

(***************************************************************************)
(* Properties of the receive ring                                          *)
(***************************************************************************)
\* the number of bytes between rx_tail and rx_head
RingCount == Mask(rx_head + UART_RX_BUFFER_SIZE - rx_tail)
\* the buffered bytes, oldest first
RingContent == [k \in 1..RingCount |-> rx_buffer[Mask(rx_tail + k - 1)]]
\* the last step was the interrupt, and it found the ring full
InterruptOnFull ==
    ring.last.by = "isr" /\ Mask(ring.last.head + 1) = ring.last.tail

\* C19: when the receive interrupt fires while the ring is full, the byte is
\* dropped and rx_head, rx_tail and every buffered byte are unchanged; after
\* any flood, under any interleaving with the consumer, the bytes uart_getc
\* has returned followed by the bytes still buffered are the accepted bytes,
\* uncorrupted and in arrival order.
C19_OverflowDropsOnly ==
    /\ InterruptOnFull
          => /\ rx_head = ring.last.head
             /\ rx_tail = ring.last.tail
             /\ rx_buffer = ring.last.buffer
             /\ RingCount = UART_RX_BUFFER_SIZE - 1
    /\ ring.dropped > 0
          => /\ ring.got \o RingContent = ring.kept
             /\ \A k \in 1..Len(ring.kept) :
                   k < Len(ring.kept) => ring.kept[k] < ring.kept[k + 1]

C19_Witness ==
    /\ ring.dropped = MaxArrivals - (UART_RX_BUFFER_SIZE - 1)
    /\ ring.flushes = 0
    /\ ring.got = [k \in 1..(UART_RX_BUFFER_SIZE - 1) |-> k]
    /\ rx_head = rx_tail

\* C20: the receive ring is a correct single-producer/single-consumer queue:
\* the interrupt handler only ever writes rx_head, uart_getc and uart_flush
\* only ever write rx_tail, and under every interleaving of the interrupt
\* inside uart_getc or uart_available the bytes uart_getc returns are exactly
\* the bytes the interrupt accepted, each once and in arrival order, with
\* rx_head and rx_tail always in 0..63.
C20_SpscQueue ==
    /\ rx_head \in 0..63
    /\ rx_tail \in 0..63
    /\ ring.last.by = "isr" => rx_tail = ring.last.tail
    /\ ring.last.by = "main"
          => (rx_head = ring.last.head /\ rx_buffer = ring.last.buffer)
    /\ ring.got \o RingContent = ring.kept
    /\ ring.flushes = 0 => ring.kept = ring.stored
    /\ main.pc = "getc_advance" => main.data = ring.kept[Len(ring.got) + 1]
    /\ Len(ring.stored) + ring.dropped = ring.arrived

C20_Witness ==
    /\ ring.got = [k \in 1..MaxArrivals |-> k]
    /\ ring.dropped = 0
    /\ rx_head = Mask(MaxArrivals)
    /\ rx_tail = rx_head

(***************************************************************************)
(* The order of events inside one cmd_execute_move                         *)
(***************************************************************************)
\* the channels a move drives and the steps after step 0, from its arguments
MoveChannels == IF call.num_servos > NUM_SERVOS THEN NUM_SERVOS ELSE call.num_servos
MoveLastStep ==
    IF call.duration_ms < MOVE_STEP_DELAY_MS THEN 1
    ELSE call.duration_ms \div MOVE_STEP_DELAY_MS

\* the j-th event of a move: with n channels, a step is n writes, channel 0
\* first, and what follows them is one delay of 20 ms
EventInOrder(j, n) ==
    LET slot == (j - 1) % (n + 1)
    IN IF slot = n
       THEN hw[j].ev = "delay" /\ hw[j].ms = 20
       ELSE hw[j].ev = "pwm" /\ hw[j].channel = slot

\* C22: within one cmd_execute_move call the event order is strict: all
\* channel writes of step k, in channel order 0..count-1, are issued, then
\* one 20 ms delay, then the writes of step k+1; no write of step k+1
\* precedes the end of the delay of step k, and a delay follows every step
\* except the last.
C22_StepOrder ==
    call.op = "move"
        => LET n == MoveChannels
           IN /\ \A j \in 1..Len(hw) : EventInOrder(j, n)
              /\ pc = "move_step" => Len(hw) = mv.step * (n + 1)
              /\ pc = "move_delay" => Len(hw) = mv.step * (n + 1) + n
              /\ pc \in {"move_store", "idle"}
                    => Len(hw) = (MoveLastStep + 1) * n + MoveLastStep

C22_Witness ==
    /\ call.op = "move"
    /\ pc = "idle"
    /\ MoveChannels = 6
    /\ MoveLastStep = 3
    /\ Len(hw) = 27
    /\ hw[7].ev = "delay"
    /\ hw[27].ev = "pwm"

(***************************************************************************)
(* The keypad menu                                                         *)
(***************************************************************************)
\* a step that is one poll of the keypad and returns at once
Poll == pc = "idle" /\ pc' = "idle" /\ ~press.busy /\ menu.build # "none"
            /\ menu'.build = menu.build

\* C25: when buttons_read returns BUTTON_NONE, lcd_menu_update changes
\* nothing: the menu state, the menu selection, the item cursor, the staged
\* duration, the staged angle buffer and every engine channel's angle and
\* pulse are unchanged, and no duty write is issued (both lcd_menu.c).
C25_IdlePollIsNoOp ==
    [][(Poll /\ press'.button = "NONE")
           => /\ menu' = menu
              /\ servo_angles' = servo_angles
              /\ servo_pulse_widths' = servo_pulse_widths
              /\ hw' = <<>>]_vars

C25_Witness ==
    /\ press.button = "NONE"
    /\ menu.build = "firmware"
    /\ menu.current_state = "STATE_POSE"
    /\ menu.temp_angles[0] = 95
    /\ servo_angles[0] = 90
    /\ hw = <<>>

\* the screens below the main menu; the MOVE of src/lcd_menu.c is the
\* duration screen followed by the angle screen
SubStates == {"STATE_MOTORS", "STATE_CALIBRATION", "STATE_POSE", "STATE_MOVE",
              "STATE_MOVE_SET_DURATION"}

\* the state of the menu after one more press, and after two SELECT presses
AfterPress(m, button) ==
    IF m.build = "firmware"
    THEN lcd_menu_update(m, Engine, button).menu.current_state
    ELSE lcd_menu_update_old(m, button).menu.current_state
AfterTwoSelects(m) ==
    IF m.build = "firmware"
    THEN AfterPress(lcd_menu_update(m, Engine, "SELECT").menu, "SELECT")
    ELSE AfterPress(lcd_menu_update_old(m, "SELECT").menu, "SELECT")

\* C26: every menu sub-state is a terminal-return state: from each of
\* MOTORS, CALIBRATION, POSE and MOVE a SELECT press returns the menu to
\* STATE_MENU (for MOVE in src/lcd_menu.c after the duration screen
\* advances to the angle screen; in firmware/lcd_menu.c once the move it
\* started has returned), sub-states are entered only from STATE_MENU by
\* SELECT, and from every reachable menu state STATE_MENU is reached again
\* by at most two button presses.
C26_SubStatesReturn ==
    [][/\ (Poll /\ press'.button = "SELECT" /\ menu.current_state \in SubStates)
            => menu'.current_state =
                   IF menu.current_state = "STATE_MOVE_SET_DURATION"
                   THEN "STATE_MOVE" ELSE "STATE_MENU"
       /\ (press.busy /\ ~press'.busy)
            => (menu.current_state = "STATE_MOVE"
                /\ menu'.current_state = "STATE_MENU")
       /\ (press'.busy /\ ~press.busy)
            => (press'.button = "SELECT" /\ menu.current_state = "STATE_MOVE"
                /\ menu' = menu)
       /\ (menu'.current_state # menu.current_state
           /\ menu'.current_state \in SubStates)
            => /\ press'.button = "SELECT"
               /\ menu.current_state =
                      IF menu.build = "src" /\ menu'.current_state = "STATE_MOVE"
                      THEN "STATE_MOVE_SET_DURATION" ELSE "STATE_MENU"
       /\ menu'.current_state \in SubStates \cup {"STATE_MENU"}
       /\ (menu' # menu /\ menu'.build # "none")
            => \/ menu'.current_state = "STATE_MENU"
               \/ AfterPress(menu', "SELECT") = "STATE_MENU"
               \/ AfterTwoSelects(menu') = "STATE_MENU"]_vars

C26_Witness ==
    /\ menu.build = "src"
    /\ menu.current_state = "STATE_MENU"
    /\ menu.menu_selection = MENU_MOVE
    /\ press.button = "SELECT"
    /\ press.runs = 1
    /\ Len(hw) > NUM_SERVOS


\* a poll of firmware/lcd_menu.c in POSE or MOVE with one of the four
\* cursor and edit buttons
StagingPoll ==
    /\ Poll
    /\ menu.build = "firmware"
    /\ menu.current_state \in {"STATE_POSE", "STATE_MOVE"}
    /\ press'.button \in {"UP", "DOWN", "LEFT", "RIGHT"}

\* C27: in the POSE and MOVE states of firmware/lcd_menu.c every
\* channel-select and angle/duration edit press changes only the menu's
\* cursor, staged angle buffer or staged duration: no engine channel's
\* stored angle or pulse changes and no duty write is issued.
C27_EditsAreStaged ==
    [][StagingPoll
         => /\ servo_angles' = servo_angles
            /\ servo_pulse_widths' = servo_pulse_widths
            /\ hw' = <<>>
            /\ [menu' EXCEPT !.selected_servo = 0, !.temp_angles = 0,
                             !.move_duration = 0]
                 = [menu EXCEPT !.selected_servo = 0, !.temp_angles = 0,
                                !.move_duration = 0]]_vars

C27_Witness ==
    /\ menu.build = "firmware"
    /\ menu.current_state = "STATE_MOVE"
    /\ press.button = "RIGHT"
    /\ menu.temp_angles[0] = 95
    /\ menu.move_duration = 1100
    /\ servo_angles[0] = 90
    /\ hw = <<>>


\* a SELECT press in the POSE state of firmware/lcd_menu.c
PoseSelect ==
    /\ Poll
    /\ menu.build = "firmware"
    /\ menu.current_state = "STATE_POSE"
    /\ press'.button = "SELECT"

\* every channel's stored angle is its staged value after the step
StagedApplied ==
    \A i \in 0..(NUM_SERVOS - 1) : servo_angles'[i] = menu.temp_angles[i]

\* C28 as stated: in the POSE state of firmware/lcd_menu.c every SELECT
\* press applies the whole staged buffer through cmd_execute_pose and
\* returns the menu to STATE_MENU.
C28_Original ==
    [][PoseSelect => (StagedApplied /\ menu'.current_state = "STATE_MENU")]_vars

\* C28: in the POSE state of firmware/lcd_menu.c every SELECT press returns
\* the menu to STATE_MENU; with the cursor on the Execute item it first
\* applies the whole staged buffer through cmd_execute_pose (afterwards
\* every channel's stored angle equals its staged value, each channel
\* written once), with the cursor on a channel item it applies nothing.
C28_SelectOnExecuteApplies ==
    [][PoseSelect
         => /\ menu'.current_state = "STATE_MENU"
            /\ menu'.temp_angles = menu.temp_angles
            /\ IF menu.selected_servo = NUM_SERVOS
               THEN /\ StagedApplied
                    /\ \A i \in 0..(NUM_SERVOS - 1) :
                          Len(SelectSeq(hw', LAMBDA w : w.ev = "pwm"
                                                       /\ w.channel = i)) = 1
               ELSE /\ servo_angles' = servo_angles
                    /\ servo_pulse_widths' = servo_pulse_widths
                    /\ hw' = <<>>]_vars

C28_Witness ==
    /\ menu.build = "firmware"
    /\ menu.current_state = "STATE_MENU"
    /\ menu.menu_selection = MENU_POSE
    /\ press.button = "SELECT"
    /\ press.runs = 1
    /\ menu.temp_angles[0] = 95
    /\ servo_angles[0] = 95
    /\ press.held[0] = 95


\* the staged durations of the MOVE screens
Durations == {d \in 100..9900 : d % 100 = 0}

\* C29: in every reachable menu state, after any sequence of button
\* presses, the staged MOVE duration is a multiple of 100 within
\* [100, 9900]: each duration edit changes it by exactly 100 ms and a press
\* at a bound leaves it unchanged.
C29_DurationBounded ==
    [][/\ menu'.move_duration \in Durations
       /\ menu'.move_duration # menu.move_duration
            => \/ menu'.move_duration = menu.move_duration + 100
               \/ menu'.move_duration = menu.move_duration - 100
       /\ (menu.move_duration = 9900 /\ menu'.move_duration # 9900)
            => menu'.move_duration = 9800
       /\ (menu.move_duration = 100 /\ menu'.move_duration # 100)
            => menu'.move_duration = 200]_vars

C29_Witness ==
    /\ menu.build = "firmware"
    /\ menu.current_state = "STATE_MOVE"
    /\ menu.selected_servo = 0
    /\ menu.move_duration = 9900
    /\ press.button = "RIGHT"


\* a SELECT press on the two MOVE screens of src/lcd_menu.c
OldDurationSelect ==
    /\ Poll
    /\ menu.build = "src"
    /\ menu.current_state = "STATE_MOVE_SET_DURATION"
    /\ press'.button = "SELECT"
OldMoveSelect ==
    /\ Poll
    /\ menu.build = "src"
    /\ menu.current_state = "STATE_MOVE"
    /\ press'.button = "SELECT"

\* the sweep from the held position to the staged angle of channel i
OldSweep(i, step) ==
    NewAngle(press.held[i], menu.servo_angles[i] - press.held[i],
             Factor(step, NumSteps(menu.move_duration)))

\* C30: in src/lcd_menu.c SELECT on the MOVE duration screen advances to
\* the angle screen, and SELECT on the angle screen executes a timed move
\* with the staged duration and angles: a sweep of max(1, duration/20) + 1
\* updates per channel whose step-0 update is the position the servo held
\* before the angles were staged and whose later updates interpolate
\* linearly to the staged angle, after which the menu returns to STATE_MENU.
C30_OldMoveSweeps ==
    [][/\ OldDurationSelect => (menu'.current_state = "STATE_MOVE" /\ hw' = <<>>)
       /\ OldMoveSelect
            => /\ menu'.current_state = "STATE_MENU"
               /\ \A i \in 0..(NUM_SERVOS - 1) :
                     LET sent == SelectSeq(hw', LAMBDA w : w.ev = "pwm"
                                                           /\ w.channel = i)
                     IN /\ Len(sent) = NumSteps(menu.move_duration) + 1
                        /\ \A k \in 1..Len(sent) :
                              sent[k].angle = OldSweep(i, k - 1)]_vars


(***************************************************************************)
(* serial_check_start byte by byte.  check holds the statics of the call   *)
(* (start_buffer of firmware/serial.c, cmd_buffer of serial_commands.c),   *)
(* where the call is, and what it last returned; host holds the bytes the  *)
(* host has still to send                                                  *)
(***************************************************************************)
NEWLINE == 10
CARRIAGE_RETURN == 13
BACKSPACE == 8
DELETE == 127

\* serial_init: the build that is linked, and the bytes the host will send
SerialInit(build, script) ==
    /\ check.build = "none"
    /\ CallerFree
    /\ check' = [check EXCEPT !.build = build]
    /\ host' = script
    /\ UNCHANGED <<engine_vars, serial_vars, uart_vars, menu_vars>>

\* the next byte of the host arrives
HostSends ==
    /\ host # <<>>
    /\ Receive(Head(host))
    /\ host' = Tail(host)
    /\ UNCHANGED <<engine_vars, serial_vars, menu_vars, check>>

\* the string a char array holds: the bytes before the first NUL
CStr(buffer) ==
    IF \E k \in 1..Len(buffer) : buffer[k] = 0
    THEN SubSeq(buffer, 1, (CHOOSE k \in 1..Len(buffer) :
                               /\ buffer[k] = 0
                               /\ \A j \in 1..(k - 1) : buffer[j] # 0) - 1)
    ELSE buffer

\* firmware/serial.c lines 586-635: the loop over the bytes available; st
\* is start_buffer up to start_index, the replies sent and the lines
\* completed so far, k the number of bytes taken from the ring
RECURSIVE CheckLoop(_, _, _)
CheckLoop(st, bytes, k) ==
    IF k >= Len(bytes)
    THEN [result |-> 0, start_buffer |-> st.start_buffer, tx |-> st.tx,
          completed |-> st.completed, used |-> k]
    ELSE LET c == bytes[k + 1]
         IN IF c = 0 THEN CheckLoop(st, bytes, k + 1)
            ELSE IF c = NEWLINE \/ c = CARRIAGE_RETURN
            THEN IF Len(st.start_buffer) > 0
                 THEN LET r == serial_check_start(st.start_buffer)
                          done == Append(st.completed, st.start_buffer)
                      IN IF r.result = 1
                         THEN [result |-> 1, start_buffer |-> <<>>, tx |-> st.tx,
                               completed |-> done, used |-> k + 1]
                         ELSE CheckLoop([start_buffer |-> <<>>,
                                         tx |-> st.tx \o r.tx,
                                         completed |-> done], bytes, k + 1)
                 ELSE CheckLoop(st, bytes, k + 1)
            ELSE IF c = BACKSPACE \/ c = DELETE
            THEN CheckLoop([st EXCEPT !.start_buffer =
                                IF Len(@) > 0 THEN SubSeq(@, 1, Len(@) - 1) ELSE @],
                           bytes, k + 1)
            ELSE IF c >= 32 /\ c <= 126 /\ Len(st.start_buffer) < CMD_BUFFER_SIZE - 1
            THEN CheckLoop([st EXCEPT !.start_buffer = Append(@, c)], bytes, k + 1)
            ELSE CheckLoop(st, bytes, k + 1)

\* what a call of serial_check_start that has returned leaves in check
CheckReturned(buffer, result, completed) ==
    [check EXCEPT !.pc = "idle", !.buffer = buffer, !.result = result,
                  !.completed = completed, !.returned = TRUE]

\* the main loop is free to call serial_check_start
MayCheckStart ==
    /\ ser.mode = "button"
    /\ ~(ser.op = "check_start" /\ ser.result = 1)
    /\ CallerFree
    /\ check.pc = "idle"

\* one call of serial_check_start of firmware/serial.c
CheckStartPoll ==
    /\ check.build = "firmware"
    /\ MayCheckStart
    /\ LET r == CheckLoop([start_buffer |-> check.buffer, tx |-> <<>>,
                           completed |-> <<>>], RingContent, 0)
       IN /\ rx_tail' = Mask(rx_tail + r.used)
          /\ ring' = [ring EXCEPT !.got = @ \o SubSeq(RingContent, 1, r.used),
                                  !.last = Step("main")]
          /\ check' = CheckReturned(r.start_buffer, r.result, r.completed)
          /\ tx' = r.tx
          /\ ser' = IF r.result = 1
                    THEN Handled("button", "check_start",
                                 r.completed[Len(r.completed)], 1, FALSE)
                    ELSE ser
    /\ UNCHANGED <<engine_vars, lines, rx_buffer, rx_head, main, menu_vars, host>>

\* serial_commands.c lines 478-484: return 0 on an empty ring, otherwise
\* enter read_command_line
CheckStartOld ==
    /\ check.build = "src"
    /\ MayCheckStart
    /\ check' = IF rx_head = rx_tail
                THEN CheckReturned(check.buffer, 0, <<>>)
                ELSE [check EXCEPT !.pc = "read_line", !.buffer = <<>>,
                                   !.returned = FALSE]
    /\ UNCHANGED <<engine_vars, serial_vars, uart_vars, menu_vars, host>>

\* serial_commands.c lines 25-57: read_command_line takes one byte from
\* uart_getc, which returns once the ring holds one; on a newline the line
\* is complete and serial_check_start compares it and returns
ReadLineByte ==
    /\ check.pc = "read_line"
    /\ rx_head # rx_tail
    /\ LET c == GetcData(rx_buffer, rx_tail)
           cmd == CStr(check.buffer)
           r == serial_check_start(cmd)
       IN /\ rx_tail' = Mask(rx_tail + 1)
          /\ ring' = [ring EXCEPT !.got = Append(@, c), !.last = Step("main")]
          /\ IF c = NEWLINE \/ c = CARRIAGE_RETURN
             THEN /\ check' = CheckReturned(check.buffer, r.result, <<cmd>>)
                  /\ tx' = r.tx
                  /\ ser' = IF r.result = 1
                            THEN Handled("button", "check_start", cmd, 1, FALSE)
                            ELSE ser
             ELSE /\ check' = [check EXCEPT !.buffer =
                                  IF c = BACKSPACE \/ c = DELETE
                                  THEN (IF Len(@) > 0 THEN SubSeq(@, 1, Len(@) - 1)
                                        ELSE @)
                                  ELSE IF Len(@) < CMD_BUFFER_SIZE - 1
                                  THEN Append(@, c) ELSE @]
                  /\ UNCHANGED <<tx, ser>>
    /\ UNCHANGED <<engine_vars, lines, rx_buffer, rx_head, main, menu_vars, host>>

\* what hosts send while the arm is in button mode: START whole, in small
\* letters, in mixed case, after a typing error, after an empty line, with
\* a NUL inside, HELP, and a line left unfinished
HostInputs ==
    {Str(<<"S", "T", "A", "R", "T">>) \o <<NEWLINE>>,
     Str(<<"s", "t", "a", "r", "t">>) \o <<CARRIAGE_RETURN, NEWLINE>>,
     Str(<<"S", "t", "a", "r", "t">>) \o <<NEWLINE>>,
     Str(<<"S", "T", "A", "T">>) \o <<BACKSPACE>> \o Str(<<"R", "T">>) \o <<NEWLINE>>,
     <<NEWLINE>> \o Str(<<"S", "T", "A", "R", "T">>) \o <<NEWLINE>>,
     Str(<<"S", "T">>) \o <<0>> \o Str(<<"A", "R", "T">>) \o <<NEWLINE>>,
     Str(<<"H", "E", "L", "P">>) \o <<NEWLINE>> \o Str(<<"S", "T", "A", "R", "T">>)
         \o <<NEWLINE>>,
     Str(<<"S", "0", ":", "9", "0">>) \o <<NEWLINE>>,
     Str(<<"S">>)}

NextStart ==
    \/ \E build \in {"firmware", "src"}, script \in HostInputs :
          SerialInit(build, script)
    \/ HostSends
    \/ CheckStartPoll
    \/ CheckStartOld
    \/ ReadLineByte

SpecStart == Init /\ [][NextStart]_vars


\* the line is the keyword, in any spelling of capitals and small letters
IsKeyword(line, keyword) == UpperKeyword(line) = keyword

\* the last line the call that has returned completed is START
StartCompleted ==
    /\ check.completed # <<>>
    /\ IsKeyword(check.completed[Len(check.completed)], START_UPPER)

\* C24: serial_check_start is a non-blocking check: it consumes only bytes
\* already in the receive ring and returns without waiting for further
\* input (a call that has not returned has a byte in the ring to take); it
\* returns 1 exactly when a newline-terminated line equal to START has been
\* completed, including when the bytes of that line arrive split across
\* several successive calls, and returns 0 otherwise.
C24_StartCheckNonBlocking ==
    /\ check.pc # "idle" => rx_head # rx_tail
    /\ check.returned => (check.result = 1 <=> StartCompleted)

\* the same for the recognised spellings START and start, of
\* firmware/serial.c alone
StartCheckFirmware ==
    check.build = "firmware"
        => /\ check.pc = "idle"
           /\ check.returned
                 => (check.result = 1
                         <=> /\ check.completed # <<>>
                             /\ check.completed[Len(check.completed)]
                                    \in {START_UPPER, START_LOWER})


(***************************************************************************)
(* The main context around a move: the keypad poll, the start check and    *)
(* the serial session are the callers, the receive interrupt fires at any  *)
(* point of a move                                                         *)
(***************************************************************************)
\* the lines of the session: two short moves, a set, and the end
BusyLines ==
    {Str(<<"m", "o", "v", "e", " ", "4", "0", " ", "1", "8", "0">>),  \* move 40 180
     Str(<<"M", "O", "V", "E", " ", "2", "0", " ", "9", "0", ",", "4", "5">>),  \* MOVE 20 90,45
     Str(<<"S", "0", ":", "9", "0">>),  \* S0:90
     STOP_UPPER}  \* STOP

\* the runs explored: the keypad is used before any byte has arrived,
\* without edits and with POSE or MOVE run once; the host sends START when
\* no key has been pressed; the flood arrives during a move the keypad
\* started or during the move of the last line of the session
Unedited(adc_value) ==
    /\ ring.arrived = 0
    /\ Runs(menu, buttons_read(adc_value)) => press.runs = 0
    /\ buttons_read(adc_value) \in {"LEFT", "RIGHT"}
          => menu.current_state = "STATE_MENU"
Flooded == pc # "idle" /\ (press.busy \/ lines = MaxLines)

NextBusy ==
    \/ LcdMenuInit("firmware") /\ UNCHANGED <<serial_vars, uart_vars, start_vars>>
    \/ SerialInit("firmware", START_UPPER \o <<NEWLINE>>)
    \/ press.button = "none" /\ HostSends
    \/ (Flooded /\ ReceiveInterrupt
          /\ UNCHANGED <<engine_vars, serial_vars, menu_vars, start_vars>>)
    \/ CheckStartPoll
    \/ EnterSerialMode /\ UNCHANGED <<uart_vars, menu_vars, start_vars>>
    \/ \E line \in BusyLines :
          lines < MaxLines /\ Dispatch(line)
                           /\ UNCHANGED <<uart_vars, menu_vars, start_vars>>
    \/ \E line \in BusyLines :
          lines < MaxLines /\ DispatchMove(line)
                           /\ UNCHANGED <<uart_vars, menu_vars, start_vars>>
    \/ MoveReply /\ UNCHANGED <<uart_vars, menu_vars, start_vars>>
    \/ \E adc_value \in AdcInputs :
          Unedited(adc_value) /\ Press(adc_value)
              /\ UNCHANGED <<serial_vars, uart_vars, start_vars>>
    \/ MenuMoveReturn /\ UNCHANGED <<serial_vars, uart_vars, start_vars>>
    \/ MoveStep /\ UNCHANGED <<serial_vars, uart_vars, menu_vars, start_vars>>
    \/ MoveDelay /\ UNCHANGED <<serial_vars, uart_vars, menu_vars, start_vars>>
    \/ MoveEnd /\ UNCHANGED <<serial_vars, uart_vars, menu_vars, start_vars>>

SpecBusy == Init /\ [][NextBusy]_vars


\* the writes and delays of the whole cmd_execute_move the engine is in,
\* computed from its arguments and the angles stored when it was called
WholeMove ==
    LET n == ClampCount(call.num_servos)
    IN OldMoveLoop([num_servos |-> n,
                    num_steps |-> NumSteps(call.duration_ms),
                    start_angles |-> [i \in 0..(n - 1) |-> call.pre_angles[i]],
                    deltas |-> [i \in 0..(n - 1) |->
                                   call.angles[i] - call.pre_angles[i]]], 0)

\* a byte arrives in this step
Arrives == ring'.arrived = ring.arrived + 1

\* C21: an in-progress cmd_execute_move cannot be interrupted: between its
\* first step update and its return no command line is dispatched and no
\* button event is handled; bytes arriving meanwhile are only appended to
\* the receive ring (or dropped when it is full), and the sequence of duty
\* writes of the move is the same whatever arrives during it.
C21_MoveUninterrupted ==
    [][pc # "idle"
         => /\ lines' = lines /\ ser' = ser /\ tx' = tx
            /\ menu' = menu /\ press' = press /\ check' = check
            /\ rx_tail' = rx_tail
            /\ Arrives
                 => /\ UNCHANGED engine_vars
                    /\ IF RingCount = UART_RX_BUFFER_SIZE - 1
                       THEN RingContent' = RingContent /\ ring'.dropped = ring.dropped + 1
                       ELSE /\ Len(RingContent') = Len(RingContent) + 1
                            /\ SubSeq(RingContent', 1, Len(RingContent)) = RingContent
            /\ ~Arrives => UNCHANGED <<rx_buffer, rx_head>>
            /\ pc' = "idle" => hw' = WholeMove]_vars

\* a move the keypad started is at its last step, the ring has filled up
\* and bytes have been dropped
C21_Witness ==
    /\ pc = "move_store"
    /\ press.busy
    /\ menu.current_state = "STATE_MOVE"
    /\ RingCount = UART_RX_BUFFER_SIZE - 1
    /\ ring.dropped > 0
    /\ hw = WholeMove


(***************************************************************************)
(* serial_mode from its entry to its return, with the keypad polled by     *)
(* the main loop whenever serial_mode is not running                       *)
(***************************************************************************)
SessionLines ==
    {STOP_UPPER,  \* STOP
     STOP_LOWER,  \* stop
     Str(<<"S", "t", "o", "p">>),  \* Stop
     Str(<<"X", "Y", "Z">>),  \* XYZ
     Str(<<"S", "0", ":", "9", "0">>),  \* S0:90
     Str(<<"S", "0", ":", "1", "8", "1">>),  \* S0:181
     Str(<<"M", "O", "V", "E", " ", "2", "0", " ", "9", "0", ",", "4", "5">>)}  \* MOVE 20 90,45

\* the polls explored: the cursor of the main menu, and SELECT into and
\* out of each screen
Navigates(adc_value) ==
    \/ buttons_read(adc_value) \in {"SELECT", "NONE"}
    \/ menu.current_state = "STATE_MENU"

NextSession ==
    \/ LcdMenuInit("firmware") /\ UNCHANGED <<serial_vars, uart_vars, start_vars>>
    \/ \E line \in {START_UPPER, HELP_UPPER} :
          CheckStart(line) /\ UNCHANGED <<uart_vars, menu_vars, start_vars>>
    \/ EnterSerialMode /\ UNCHANGED <<uart_vars, menu_vars, start_vars>>
    \/ \E line \in SessionLines :
          lines < MaxLines /\ Dispatch(line)
                           /\ UNCHANGED <<uart_vars, menu_vars, start_vars>>
    \/ \E line \in SessionLines :
          lines < MaxLines /\ DispatchMove(line)
                           /\ UNCHANGED <<uart_vars, menu_vars, start_vars>>
    \/ MoveReply /\ UNCHANGED <<uart_vars, menu_vars, start_vars>>
    \/ \E adc_value \in AdcInputs :
          Navigates(adc_value) /\ Press(adc_value)
              /\ UNCHANGED <<serial_vars, uart_vars, start_vars>>
    \/ MoveStep /\ UNCHANGED <<serial_vars, uart_vars, menu_vars, start_vars>>
    \/ MoveDelay /\ UNCHANGED <<serial_vars, uart_vars, menu_vars, start_vars>>
    \/ MoveEnd /\ UNCHANGED <<serial_vars, uart_vars, menu_vars, start_vars>>

SpecSession == Init /\ [][NextSession]_vars

\* one step of the system seen from serial_mode, for a notion IsStop of the
\* lines that are STOP
SessionStep(IsStop(_)) ==
    /\ (ser.mode = "button" /\ ser'.mode = "serial") => tx' = <<Puts("OK\n")>>
    /\ (ser.mode = "serial" /\ lines' = lines + 1)
          => /\ ser'.op = "dispatch"
             /\ ser'.mode = "button" <=> IsStop(ser'.line)
             /\ ser'.mode = "button" => tx'[Len(tx')] = Puts("OK\n")
    /\ (ser.mode = "serial" /\ lines' = lines) => ser'.mode = "serial"
    /\ ser.mode = "serial" => (menu' = menu /\ press' = press)

\* C23: once entered, serial_mode replies OK and then loops read one full
\* line -> dispatch -> reply; it returns (after a final OK) exactly when a
\* dispatched line is STOP, in any spelling of the keyword, and no other
\* line, error or reply ends the session; while it runs the keypad menu is
\* never updated.
C23_SessionLoop ==
    [][SessionStep(LAMBDA line : IsKeyword(line, STOP_UPPER))]_vars

\* the same for the two spellings process_command recognises
SessionLoopRecognised ==
    [][SessionStep(LAMBDA line : line \in {STOP_UPPER, STOP_LOWER})]_vars

(***************************************************************************)
(* commands.c:104-155 called with no channel to move                       *)
(***************************************************************************)
\* what a move with count 0 leaves behind: the step loop of lines 127-149 still
\* runs, so only the per-channel loops of lines 121, 132 and 152 are empty
ZeroCountMove ==
    (Returns("move") /\ call.num_servos = 0)
        => /\ UpdatesOf(0) = <<>> /\ Len(hw) = Len(Delays)
           /\ Len(Delays) = NumSteps(call.duration_ms)
           /\ servo_angles = call.pre_angles
           /\ servo_pulse_widths = call.pre_pulses

\* C31: cmd_execute_move called with count == 0 is a no-op for every
\* duration_ms: it issues no duty write, executes no step delay, and changes
\* no channel's stored angle or pulse.
C31_ZeroCountNoOp ==
    (Returns("move") /\ call.num_servos = 0)
        => /\ \A e \in 1..Len(hw) : hw[e].ev # "pwm"
           /\ Len(Delays) = 0
           /\ servo_angles = call.pre_angles
           /\ servo_pulse_widths = call.pre_pulses

(***************************************************************************)
(* commands.c:25-84 and pca9685.c:70-87 for a channel that does not exist  *)
(***************************************************************************)
\* the channel numbers a uint8_t can hold beyond the servos, and beyond the
\* outputs of the expander
NoServo == NUM_SERVOS..255
NoOutput == PCA9685_CHANNELS..255

\* C32: operations addressed to a channel >= NUM_SERVOS never touch state:
\* cmd_set_servo_angle and cmd_set_servo_pwm_us change no stored value and
\* issue no duty write, cmd_get_servo_angle returns 90 and
\* cmd_get_servo_pwm_us returns 1500 whatever the channels hold, and
\* pca9685_set_pwm for a channel >= 16 performs no bus write.
C32_InvalidChannelNoOp ==
    /\ ((Returns("set_angle") \/ Returns("set_pwm_us")) /\ call.channel \in NoServo)
          => /\ hw = <<>>
             /\ servo_angles = call.pre_angles
             /\ servo_pulse_widths = call.pre_pulses
    /\ \A c \in NoServo :
          /\ cmd_get_servo_angle(c) = 90
          /\ cmd_get_servo_pwm_us(c) = 1500
    /\ \A c \in NoOutput, off \in {0, 307, 4095} :
          pca9685_set_pwm(PCA9685_DEFAULT_ADDRESS, c, 0, off) = <<>>

\* a set_angle to the first channel past the servos, after a call that moved
\* channel 5 away from the centre
C32_Witness ==
    /\ Returns("set_angle")
    /\ call.channel = NUM_SERVOS
    /\ call.angle = 45
    /\ calls = 2
    /\ servo_angles[5] = 180
    /\ hw = <<>>
    /\ cmd_get_servo_angle(NUM_SERVOS) = 90

(***************************************************************************)
(* pca9685.c:93-125: the duty value of a pulse width                       *)
(***************************************************************************)
\* p * 4096 / 20000 to the nearest integer, and as C's integer division
\* leaves it, each limited to 12 bits
DutyNearest(p) ==
    LET d == (p * 4096 + 10000) \div 20000 IN IF d > 4095 THEN 4095 ELSE d
DutyTruncated(p) ==
    LET d == (p * 4096) \div 20000 IN IF d > 4095 THEN 4095 ELSE d

\* the duty writes of the running or last call
DutyWrites == {k \in 1..Len(hw) : hw[k].ev = "pwm"}

\* every duty write carries the truncated quotient, with on-tick 0
DutyIsTruncated ==
    \A k \in DutyWrites :
        /\ hw[k].on = 0
        /\ hw[k].pulse_us \in 0..20000
        /\ hw[k].off = DutyTruncated(hw[k].pulse_us)

\* C33: for every pulse width p in [0,20000] the duty value written to the
\* channel driver equals p * 4096 / 20000 rounded to the nearest integer and
\* limited to 4095, with on-tick 0; for every angle a in 0..180 set_angle
\* writes the duty of the pulse 500 + a * 2000 / 180.
C33_DutyRounded ==
    /\ \A k \in DutyWrites :
          /\ hw[k].on = 0
          /\ hw[k].off = DutyNearest(hw[k].pulse_us)
    /\ (Returns("set_angle") /\ call.channel < NUM_SERVOS /\ call.angle <= 180)
          => /\ Len(hw) = 1
             /\ hw[1].off = DutyNearest(500 + (call.angle * 2000) \div 180)

(***************************************************************************)
(* commands.c:25-64 and 89-155: the channels a call touches                *)
(***************************************************************************)
\* the stored values of channel i are those the call started from
Kept(i) ==
    /\ servo_angles[i] = call.pre_angles[i]
    /\ servo_pulse_widths[i] = call.pre_pulses[i]

\* C40: engine writes are confined to the addressed channels:
\* cmd_set_servo_angle(c, .) and cmd_set_servo_pwm_us(c, .) for a servo c
\* change only channel c's stored values and issue exactly one duty write,
\* to channel c; cmd_execute_pose and cmd_execute_move with count
\* k < NUM_SERVOS leave the stored angle and pulse of every channel >= k
\* unchanged and issue no duty write to them, at any point of the call.
C40_WritesConfined ==
    /\ (call.op \in {"set_angle", "set_pwm_us"} /\ call.channel < NUM_SERVOS)
          => /\ Len(hw) = 1
             /\ hw[1].ev = "pwm"
             /\ hw[1].channel = call.channel
             /\ \A i \in Slots \ {call.channel} : Kept(i)
    /\ (call.op \in {"pose", "move"} /\ call.num_servos < NUM_SERVOS)
          => \A i \in Slots \ Moved(call.num_servos) :
                /\ Kept(i)
                /\ UpdatesOf(i) = <<>>

\* a finished move of two channels that changed channel 1 and sent it updates
C40_Witness ==
    /\ Returns("move")
    /\ call.num_servos = 2
    /\ calls = 2
    /\ servo_angles[1] # call.pre_angles[1]
    /\ Len(UpdatesOf(1)) > 1
    /\ call.angles[2] # servo_angles[2]

(***************************************************************************)
(* cmd_execute_move over the whole range of its 16-bit duration: the loop  *)
(* of commands.c:127-149 runs on the only thread of control, so a step, a  *)
(* delay or the final store that can be taken is taken                     *)
(***************************************************************************)
MaxSweeps == 1
\* the durations around each step count up to the largest a uint16_t holds,
\* which is swept with at most one channel to keep the trace of writes short
SweepInputs ==
    {<<d, n>> : d \in {0, 19, 20, 65, 1000}, n \in {0, 1, 255}}
        \cup {<<65535, 0>>, <<65535, 1>>}
\* targets below and above each start of 90, in and out of range
SweepTargets == {Arr(<<0, 45, 135, 180, 181, 255, 7, 9>>)}

NextSweep ==
    \/ \E dn \in SweepInputs, t \in SweepTargets :
          calls < MaxSweeps /\ MoveBegin(dn[1], t, dn[2])
                            /\ UNCHANGED <<serial_vars, uart_vars, menu_vars, start_vars>>
    \/ MoveStep /\ UNCHANGED <<serial_vars, uart_vars, menu_vars, start_vars>>
    \/ MoveDelay /\ UNCHANGED <<serial_vars, uart_vars, menu_vars, start_vars>>
    \/ MoveEnd /\ UNCHANGED <<serial_vars, uart_vars, menu_vars, start_vars>>

SpecSweep ==
    /\ Init
    /\ [][NextSweep]_vars
    /\ WF_vars((MoveStep \/ MoveDelay \/ MoveEnd)
                  /\ UNCHANGED <<serial_vars, uart_vars, menu_vars, start_vars>>)


\* max(1, duration_ms / 20)
StepsOf(duration_ms) ==
    IF duration_ms \div 20 = 0 THEN 1 ELSE duration_ms \div 20

\* inside the loop the 16-bit counter is at most num_steps, which leaves room
\* for the increment that ends the loop, and the 32-bit quotient stored into
\* factor is at most 1000
SweepInRange ==
    pc \in {"move_step", "move_delay"}
        => /\ mv.num_steps = StepsOf(mv.duration_ms)
           /\ mv.step <= mv.num_steps
           /\ mv.num_steps < 65535
           /\ (mv.step * 1000) \div mv.num_steps \in 0..1000
           /\ Factor(mv.step, mv.num_steps) = (mv.step * 1000) \div mv.num_steps

DelaysCounted ==
    Returns("move")
        => /\ Len(Delays) = StepsOf(call.duration_ms)
           /\ \A k \in 1..Len(hw) : hw[k].ev = "delay" => hw[k].ms = 20

\* C39: cmd_execute_move terminates for every 16-bit duration_ms and every
\* count: the 16-bit step counter never wraps before passing num_steps, the
\* interpolation factor stays within 0..1000, and the call returns after
\* exactly max(1, duration_ms / 20) delays of 20 ms.
C39_MoveTerminates ==
    /\ []SweepInRange
    /\ []DelaysCounted
    /\ (pc # "idle") ~> Returns("move")

\* the longest move there is has returned, after 3276 delays
C39_Witness ==
    /\ Returns("move")
    /\ call.duration_ms = 65535
    /\ call.num_servos = 1
    /\ Len(Delays) = 3276
    /\ Len(UpdatesOf(0)) = 3277

(***************************************************************************)
(* commands.c:117-143: the angles a move sends on the way                  *)
(***************************************************************************)
\* x lies between a and b, whichever is larger
Between(x, a, b) == (a <= x /\ x <= b) \/ (b <= x /\ x <= a)

\* the angles sent to channel i never step back from the way to the target
Monotonic(i) ==
    LET sent == UpdatesOf(i)
    IN \A k \in 1..(Len(sent) - 1) :
          IF call.angles[i] >= call.pre_angles[i]
          THEN sent[k].angle <= sent[k + 1].angle
          ELSE sent[k].angle >= sent[k + 1].angle

\* C38: during cmd_execute_move with start and target angles in [0,180],
\* every angle sent to a channel lies between that channel's start and
\* target inclusive, and the per-channel sequence of sent angles is
\* monotonic (non-decreasing when target >= start, non-increasing
\* otherwise), also for negative deltas under truncating division.
C38_SweepMonotonic ==
    call.op = "move"
        => \A i \in Moved(call.num_servos) :
              (call.pre_angles[i] <= 180 /\ call.angles[i] <= 180)
                 => /\ \A k \in 1..Len(hw) :
                          (hw[k].ev = "pwm" /\ hw[k].channel = i)
                             => Between(hw[k].angle, call.pre_angles[i], call.angles[i])
                    /\ (pc \in {"move_store", "idle"} => Monotonic(i))

\* a finished two-second move of all six channels that took channel 0 down
\* from 90 to 0 and channel 2 up from 90 to 135, through angles in between
C38_Witness ==
    /\ Returns("move")
    /\ call.duration_ms = 2000
    /\ call.num_servos = 7
    /\ call.pre_angles[0] = 90 /\ call.angles[0] = 0
    /\ call.pre_angles[2] = 90 /\ call.angles[2] = 135
    /\ UpdatesOf(0)[50].angle \in 1..89
    /\ UpdatesOf(2)[50].angle \in 91..134
    /\ Len(UpdatesOf(0)) = 101

(***************************************************************************)
(* firmware/lcd_menu.c:226-249: entering the staged screens                *)
(***************************************************************************)
\* a SELECT in STATE_MENU that opens the POSE or the MOVE screen
EnterStaging ==
    /\ Poll
    /\ menu.build = "firmware"
    /\ menu.current_state = "STATE_MENU"
    /\ menu'.current_state \in {"STATE_POSE", "STATE_MOVE"}

\* C36: in firmware/lcd_menu.c, on every entry to the POSE or MOVE state
\* from STATE_MENU the staged angle buffer equals the engine's current
\* stored angles (so that Execute without any edit leaves every channel's
\* stored angle unchanged), whatever MOTORS edits or earlier moves happened
\* since lcd_menu_init.
C36_StagedFreshOnEntry ==
    [][EnterStaging
         => \A i \in 0..(NUM_SERVOS - 1) :
               menu'.temp_angles[i] = servo_angles'[i]]_vars

(***************************************************************************)
(* The MOTORS screen of both builds up to the ends of the angle range:     *)
(* firmware/lcd_menu.c:253-303 edits the engine's angle, which a serial    *)
(* S command may have set to any value before; src/lcd_menu.c:251-289      *)
(* edits its own servo_angles, which only key presses change               *)
(***************************************************************************)
MaxPresets == 1
MaxEdits == 19
PresetAngles == {3, 178}

\* from the main menu only the MOTORS screen is opened
MotorsOnly(adc_value) ==
    menu.current_state = "STATE_MENU"
        => /\ menu.menu_selection = MENU_MOTORS
           /\ buttons_read(adc_value) \in {"SELECT", "NONE"}

\* the edits explored: a few in the firmware, whose angle starts anywhere,
\* and on channel 0 as many as lead from 90 to either end in src/lcd_menu.c
MotorsExplored ==
    press'.edits # press.edits
        => IF menu.build = "firmware"
           THEN press.edits < MaxChanges
           ELSE press.edits < MaxEdits /\ menu.selected_servo = 0

NextMotors ==
    \/ \E build \in {"firmware", "src"} :
          LcdMenuInit(build) /\ UNCHANGED <<serial_vars, uart_vars, start_vars>>
    \/ \E a \in PresetAngles :
          /\ calls < MaxPresets
          /\ menu.build # "src"
          /\ CallerFree
          /\ SetServoAngle(0, a)
          /\ UNCHANGED <<serial_vars, uart_vars, menu_vars, start_vars>>
    \/ \E adc_value \in AdcInputs :
          MotorsOnly(adc_value) /\ Press(adc_value) /\ MotorsExplored
                                /\ UNCHANGED <<serial_vars, uart_vars, start_vars>>
    \/ \E adc_value \in AdcInputs :
          MotorsOnly(adc_value) /\ PressOld(adc_value) /\ MotorsExplored
                                /\ UNCHANGED <<serial_vars, uart_vars, start_vars>>

SpecMotors == Init /\ [][NextMotors]_vars

\* the buttons that raise and lower the angle on the MOTORS screen
IncreaseButton == IF menu.build = "firmware" THEN "RIGHT" ELSE "UP"
DecreaseButton == IF menu.build = "firmware" THEN "LEFT" ELSE "DOWN"

\* a poll on the MOTORS screen that sees this button (a step of the menu,
\* not an engine call from elsewhere)
MotorsPress(button) ==
    /\ Poll
    /\ calls' = calls
    /\ menu.current_state = "STATE_MOTORS"
    /\ press'.button = button

\* the live angle of channel i: the engine's in the firmware, the menu's own
\* in src/lcd_menu.c
LiveAngle(i) == IF menu.build = "firmware" THEN servo_angles[i] ELSE menu.servo_angles[i]

\* the step from angle a to angle b on the selected channel: every other
\* value stays, and unless a = b one duty write carries b to that channel
EditedTo(a, b) ==
    LET c == menu.selected_servo
    IN /\ menu' = IF menu.build = "firmware" THEN menu
                  ELSE [menu EXCEPT !.servo_angles[c] = b]
       /\ servo_angles' = IF menu.build = "firmware"
                          THEN [servo_angles EXCEPT ![c] = b] ELSE servo_angles
       /\ IF a = b
          THEN hw' = <<>> /\ servo_pulse_widths' = servo_pulse_widths
          ELSE /\ Len(hw') = 1
               /\ hw'[1].ev = "pwm"
               /\ hw'[1].channel = c
               /\ hw'[1].pulse_us = AngleToPulse(b)
               /\ servo_pulse_widths' =
                     IF menu.build = "firmware"
                     THEN [servo_pulse_widths EXCEPT ![c] = AngleToPulse(b)]
                     ELSE servo_pulse_widths

\* C35: in the MOTORS state, each angle-increase or angle-decrease press
\* changes the selected channel's live angle by exactly 5 degrees, saturating
\* at 180 and at 0 (never wrapping), applies it immediately with one duty
\* write, and changes no other channel; a press at the saturated bound
\* issues no write.
C35_MotorsStep ==
    [][LET a == LiveAngle(menu.selected_servo)
       IN /\ (MotorsPress(IncreaseButton) /\ a <= 180)
                => EditedTo(a, IF a + 5 > 180 THEN 180 ELSE a + 5)
          /\ (MotorsPress(DecreaseButton) /\ a <= 180)
                => EditedTo(a, IF a - 5 < 0 THEN 0 ELSE a - 5)]_vars

\* the firmware's channel 0 was lowered from 3 to 0, by one write of 500 us
C35_Witness ==
    /\ menu.build = "firmware"
    /\ menu.current_state = "STATE_MOTORS"
    /\ press.button = "LEFT"
    /\ call.op = "set_angle" /\ call.angle = 3
    /\ servo_angles[0] = 0
    /\ Len(hw) = 1
    /\ hw[1].pulse_us = 500

(***************************************************************************)
(* The cursors of firmware/lcd_menu.c on every screen, with the staged     *)
(* angle of channel 0 edited up to both ends of its range                  *)
(***************************************************************************)
\* the presses explored: every move of a cursor and every change of screen;
\* of the edits those of channel 0's staged angle; no Execute
CursorExplored(adc_value) ==
    /\ ~Runs(menu, buttons_read(adc_value))
    /\ menu'.move_duration = menu.move_duration
    /\ press'.edits # press.edits
          => /\ menu.current_state \in {"STATE_POSE", "STATE_MOVE"}
             /\ EditedChannel(menu) = 0
             /\ press.edits < MaxEdits

NextCursor ==
    \/ LcdMenuInit("firmware") /\ UNCHANGED <<serial_vars, uart_vars, start_vars>>
    \/ \E adc_value \in AdcInputs :
          Press(adc_value) /\ CursorExplored(adc_value)
                           /\ UNCHANGED <<serial_vars, uart_vars, start_vars>>

SpecCursor == Init /\ [][NextCursor]_vars

\* the elements of temp_angles the screen of menu state m shows and edits:
\* lines 118-125 and 378-399 for POSE, lines 139-153 and 438-471 for MOVE
StagedIndexes(m) ==
    IF m.current_state = "STATE_POSE"
    THEN IF m.selected_servo < NUM_SERVOS THEN {m.selected_servo} ELSE {}
    ELSE IF m.current_state = "STATE_MOVE"
    THEN IF m.selected_servo = 0 THEN {}
         ELSE IF m.selected_servo <= NUM_SERVOS
              THEN {(m.selected_servo - 1) % 256} ELSE {}
    ELSE {}

\* the channel the screen passes to the engine's getters and setters:
\* lines 99, 273-292 for MOTORS, lines 110, 326-345 for CALIBRATION
EngineIndexes(m) ==
    IF m.current_state \in {"STATE_MOTORS", "STATE_CALIBRATION"}
    THEN {m.selected_servo} ELSE {}

\* C34: in every reachable state of the firmware/lcd_menu.c menu the cursors
\* stay in range: menu_selection is in 0..3; selected_servo is < NUM_SERVOS
\* in MOTORS and CALIBRATION, <= NUM_SERVOS in POSE and <= NUM_SERVOS + 1 in
\* MOVE; every index used to read or write the staged angle buffer or
\* passed to the engine is < NUM_SERVOS; and every staged angle is in
\* [0,180].
C34_CursorsInRange ==
    menu.build = "firmware"
        => /\ menu.menu_selection \in 0..(NUM_MENU_OPTIONS - 1)
           /\ menu.current_state \in {"STATE_MOTORS", "STATE_CALIBRATION"}
                 => menu.selected_servo \in 0..(NUM_SERVOS - 1)
           /\ menu.current_state = "STATE_POSE"
                 => menu.selected_servo \in 0..NUM_SERVOS
           /\ menu.current_state = "STATE_MOVE"
                 => menu.selected_servo \in 0..(NUM_SERVOS + 1)
           /\ StagedIndexes(menu) \cup EngineIndexes(menu) \subseteq 0..(NUM_SERVOS - 1)
           /\ \A i \in 0..(NUM_SERVOS - 1) : menu.temp_angles[i] \in 0..180
           /\ \A i \in Slots \ (0..(NUM_SERVOS - 1)) : menu.temp_angles[i] = 0

\* the cursor of the MOVE screen wrapped from the first item to Execute,
\* after channel 0 was staged all the way up to 180
C34_Witness ==
    /\ menu.build = "firmware"
    /\ menu.current_state = "STATE_MOVE"
    /\ menu.selected_servo = NUM_SERVOS + 1
    /\ press.button = "UP"
    /\ menu.temp_angles[0] = 180

(***************************************************************************)
(* serial_mode of firmware/serial.c byte by byte: read_command_line        *)
(* (lines 27-75) takes the bytes of the ring one at a time, and the loop   *)
(* of serial_mode (lines 553-565) hands each line it returns to            *)
(* process_command                                                         *)
(***************************************************************************)
\* the host types START, and main enters serial_mode
LineStart ==
    /\ ser.op = "none"
    /\ check.build = "none"
    /\ CheckStart(START_UPPER)
    /\ UNCHANGED <<uart_vars, menu_vars, start_vars>>

\* serial_mode calls read_command_line (lines 28-29: cmd_index = 0 and an
\* empty cmd_buffer) while the host sends this script
LineBegin(script) ==
    /\ ser.mode = "serial"
    /\ check.build = "none"
    /\ CallerFree
    /\ check' = [check EXCEPT !.build = "serial", !.pc = "read_line", !.buffer = <<>>]
    /\ host' = script
    /\ UNCHANGED <<engine_vars, serial_vars, uart_vars, menu_vars>>

\* lines 31-74: one turn of the loop of read_command_line; uart_getc returns
\* once the ring holds a byte.  check.buffer is cmd_buffer up to cmd_index
ReadCommandByte ==
    /\ check.build = "serial"
    /\ check.pc = "read_line"
    /\ ser.mode = "serial"
    /\ CallerFree
    /\ rx_head # rx_tail
    /\ LET c == GetcData(rx_buffer, rx_tail)
           cmd_index == Len(check.buffer)
       IN /\ rx_tail' = Mask(rx_tail + 1)
          /\ ring' = [ring EXCEPT !.got = Append(@, c), !.last = Step("main")]
          /\ check' =
                IF c = 0 THEN check
                ELSE IF c = NEWLINE \/ c = CARRIAGE_RETURN
                THEN IF cmd_index > 0
                     THEN [check EXCEPT !.pc = "dispatch",
                                        !.completed = <<check.buffer>>]
                     ELSE check
                ELSE IF c = BACKSPACE \/ c = DELETE
                THEN IF cmd_index > 0
                     THEN [check EXCEPT !.buffer = SubSeq(@, 1, cmd_index - 1)]
                     ELSE check
                ELSE IF c >= 32 /\ c <= 126 /\ cmd_index < CMD_BUFFER_SIZE - 1
                THEN [check EXCEPT !.buffer = Append(@, c)]
                ELSE check
    /\ UNCHANGED <<engine_vars, serial_vars, rx_buffer, rx_head, main, menu_vars, host>>

\* lines 556-565: the line read_command_line returned goes to
\* process_command, and the loop reads the next line
DispatchLine ==
    /\ check.build = "serial"
    /\ check.pc = "dispatch"
    /\ \/ Dispatch(check.completed[1])
       \/ DispatchMove(check.completed[1])
    /\ check' = [check EXCEPT !.pc = "read_line", !.buffer = <<>>]
    /\ UNCHANGED <<uart_vars, menu_vars, host>>

\* six angles of three digits, and the lines of a host: short ones, one
\* corrected with a backspace, one ended by CR LF after a NUL, and lines of
\* more than CMD_BUFFER_SIZE - 1 characters
SixAngles ==
    Str(<<"1", "0", "0", ",", "1", "0", "0", ",", "1", "0", "0", ",",
          "1", "0", "0", ",", "1", "0", "0", ",", "1", "0", "0">>)
LongMove == Str(<<"M", "O", "V", "E", " ", "1", "0", "0", " ">>) \o SixAngles
LongPose == Str(<<"P", "O", "S", "E", " ", " ", " ", " ", " ", " ">>) \o SixAngles
LongUnknown == Str(<<"X", "Y", "Z", " ", "1", "0", "0", ",", "2", "0">>) \o SixAngles
ByteInputs ==
    {Str(<<"S", "0", ":", "4", "5">>) \o <<NEWLINE>>,
     Str(<<"S", "1", ":", "9">>) \o <<BACKSPACE>> \o Str(<<"4", "5">>) \o <<NEWLINE>>,
     <<NEWLINE>> \o Str(<<"G", "E">>) \o <<0>> \o Str(<<"T", " ", "0">>)
         \o <<CARRIAGE_RETURN, NEWLINE>>,
     Str(<<"M", "O", "V", "E", " ", "2", "0", " ", "4", "5">>) \o <<NEWLINE>>,
     LongMove \o <<NEWLINE>>,
     LongPose \o <<NEWLINE>>,
     LongUnknown \o <<NEWLINE>>}

NextLine ==
    \/ LineStart
    \/ EnterSerialMode /\ UNCHANGED <<uart_vars, menu_vars, start_vars>>
    \/ \E script \in ByteInputs : LineBegin(script)
    \/ HostSends
    \/ ReadCommandByte
    \/ DispatchLine
    \/ MoveStep /\ UNCHANGED <<serial_vars, uart_vars, menu_vars, start_vars>>
    \/ MoveDelay /\ UNCHANGED <<serial_vars, uart_vars, menu_vars, start_vars>>
    \/ MoveEnd /\ UNCHANGED <<serial_vars, uart_vars, menu_vars, start_vars>>
    \/ MoveReply /\ UNCHANGED <<uart_vars, menu_vars, start_vars>>

SpecLine == Init /\ [][NextLine]_vars

\* the lines a reader without a limit on the length would have returned for
\* these bytes: cur is the line being typed, done the lines completed
RECURSIVE FullLines(_, _, _, _)
FullLines(bytes, k, cur, done) ==
    IF k > Len(bytes) THEN done
    ELSE LET c == bytes[k]
         IN IF c = NEWLINE \/ c = CARRIAGE_RETURN
            THEN FullLines(bytes, k + 1, <<>>,
                           IF cur # <<>> THEN Append(done, cur) ELSE done)
            ELSE IF c = BACKSPACE \/ c = DELETE
            THEN FullLines(bytes, k + 1,
                           IF cur # <<>> THEN SubSeq(cur, 1, Len(cur) - 1) ELSE cur,
                           done)
            ELSE IF c >= 32 /\ c <= 126
            THEN FullLines(bytes, k + 1, Append(cur, c), done)
            ELSE FullLines(bytes, k + 1, cur, done)

\* the full line the host sent last, once the reader has taken its newline
Received == FullLines(ring.got, 1, <<>>, <<>>)
LastReceived == Received[Len(Received)]

\* the line dispatched last changed nothing and wrote nothing
Rejected ==
    /\ servo_angles = ser.pre_angles
    /\ servo_pulse_widths = ser.pre_pulses
    /\ hw = <<>>
    /\ pc = "idle"
    /\ ~ser.busy

\* C37: the line reader never makes the engine execute a command other than
\* the full line received: the line index stays within
\* 0..CMD_BUFFER_SIZE - 1 for any input, and a line longer than
\* CMD_BUFFER_SIZE - 1 = 31 characters is rejected rather than cut to its
\* first 31 characters and dispatched as a state-mutating command.
C37_FullLineOrRejected ==
    check.build = "serial"
        => /\ Len(check.buffer) \in 0..(CMD_BUFFER_SIZE - 1)
           /\ (ser.op = "dispatch" /\ Received # <<>>)
                 => IF Len(LastReceived) <= CMD_BUFFER_SIZE - 1
                    THEN ser.line = LastReceived
                    ELSE Rejected

\* the reader's own part: the index stays in range, a line that fits is
\* dispatched as sent, and a longer one is dispatched as its first 31
\* characters
LineCutAt31 ==
    check.build = "serial"
        => /\ Len(check.buffer) \in 0..(CMD_BUFFER_SIZE - 1)
           /\ (ser.op = "dispatch" /\ Received # <<>>)
                 => ser.line = IF Len(LastReceived) <= CMD_BUFFER_SIZE - 1
                               THEN LastReceived
                               ELSE SubSeq(LastReceived, 1, CMD_BUFFER_SIZE - 1)

====
